---- MODULE Spec2Model ----
(***************************************************************************)
(* Transaction history synchronization engine of vault0                    *)
(* (internal/services/transaction/history.go): the historyService state,   *)
(* its public operations and the background goroutine that runs the sync   *)
(* cycles, one step per lock section or blocking call.                     *)
(***************************************************************************)
EXTENDS Integers, Sequences, FiniteSets, TLC

(* ------------------------------ bounds -------------------------------- *)
\* StartTransactionSyncing calls that take effect (contexts and goroutines).
MaxStarts == 2
\* Sync cycles begun by all goroutines together (initial syncs and ticks).
MaxCycles == 2
\* MonitorAddress / UnmonitorAddress calls that change the map.
MaxMapOps == 2
\* Events a consumer takes from HistoryEvents().
MaxRecv == 1

\* Keys created or imported (values of GenerateID), calls of the keystore.
MaxKeys == 2
MaxKsOps == 4

\* Step by step: sync cycles, addresses in a snapshot, items in a batch.
MaxLockCycles == 2
MaxSnapshot == 2
MaxItems == 2
MaxFactoryCalls == 3
MaxSigners == 2
MaxAddresses == 1
MaxSvcOps == 3

(* ------------------------- program constants -------------------------- *)
\* make(chan *TransactionEvent, 100)
ChanCap == 100
\* TransactionHistoryOptions.Limit
Limit == 9000

\* A nil context.Context (syncCtx before Start and after Stop).
NoCtx == 0
\* A key that is absent from the syncAddresses map.
Absent == -1

Ctxs == 1..MaxStarts
Tasks == 1..MaxStarts

\* Addresses handed to MonitorAddress / UnmonitorAddress.
Addrs == {"A", "B"}
\* Start blocks handed to MonitorAddress.
StartBlocks == {100}

TxTypeNormal == "normal"
TxTypeERC20 == "erc20"

(* --------------------- the explorer's source of truth ----------------- *)
\* The chain as the block explorer sees it, in ascending block order.
\* veto: the transform pipeline returns nil for it; tracked: for an ERC20
\* transfer, its token address is in its metadata and in the token store.
VARIABLE ledger

MainChain ==
  << [hash |-> "n1", addr |-> "A", typ |-> "normal", block |-> 101, veto |-> FALSE, tracked |-> FALSE],
     [hash |-> "n3", addr |-> "B", typ |-> "normal", block |-> 101, veto |-> FALSE, tracked |-> FALSE],
     [hash |-> "e1", addr |-> "A", typ |-> "erc20",  block |-> 102, veto |-> FALSE, tracked |-> TRUE],
     [hash |-> "n2", addr |-> "A", typ |-> "normal", block |-> 103, veto |-> FALSE, tracked |-> FALSE] >>

\* An address that receives unsolicited transfers: one the transform
\* filters out, one of a token whose address is not in the metadata or not
\* in the token store, then a transfer of a tracked token and a plain one.
DustChain ==
  << [hash |-> "d1", addr |-> "A", typ |-> "normal", block |-> 101, veto |-> TRUE,  tracked |-> FALSE],
     [hash |-> "d2", addr |-> "A", typ |-> "erc20",  block |-> 101, veto |-> FALSE, tracked |-> FALSE],
     [hash |-> "e1", addr |-> "A", typ |-> "erc20",  block |-> 102, veto |-> FALSE, tracked |-> TRUE],
     [hash |-> "n2", addr |-> "A", typ |-> "normal", block |-> 103, veto |-> FALSE, tracked |-> FALSE] >>

\* A busy address: Limit - 1 transactions up to block 101, which the entry
\* "bulk" stands for as one, then two transactions in block 102.
BusyChain ==
  << [hash |-> "bulk", addr |-> "A", typ |-> "normal", block |-> 101, veto |-> FALSE, tracked |-> FALSE],
     [hash |-> "x1",   addr |-> "A", typ |-> "normal", block |-> 102, veto |-> FALSE, tracked |-> FALSE],
     [hash |-> "x2",   addr |-> "A", typ |-> "normal", block |-> 102, veto |-> FALSE, tracked |-> FALSE] >>

Chain == ledger

\* The number of transactions an entry of the chain stands for.
Weight(x) == IF x.hash = "bulk" THEN Limit - 1 ELSE 1

RECURSIVE TotalWeight(_)
TotalWeight(items) ==
  IF items = << >> THEN 0 ELSE Weight(Head(items)) + TotalWeight(Tail(items))

\* explorer.GetTransactionHistory(ctx, address, {type, StartBlock, Limit}, ""):
\* the first page of the address's transactions of that type at or above
\* StartBlock, oldest first: at most Limit transactions.
GetTransactionHistory(address, txType, startBlock) ==
  LET all == SelectSeq(Chain, LAMBDA x : x.addr = address /\ x.typ = txType
                                         /\ x.block >= startBlock)
      fits == {n \in 0..Len(all) : TotalWeight(SubSeq(all, 1, n)) <= Limit}
  IN  SubSeq(all, 1, CHOOSE n \in fits : \A m \in fits : m <= n)

(* ------------------------------- state -------------------------------- *)
VARIABLES
  syncCtx,            \* s.syncCtx: NoCtx or the context made by the last Start
  cancelled,          \* contexts whose cancel function has been called
  syncAddresses,      \* s.syncAddresses: address -> StartBlock, or Absent
  historyEventsChan,  \* s.historyEventsChan: buffered channel contents
  repository,         \* transaction rows: the set of row IDs; the ID of
                      \* the n-th row created for a hash is <<hash, n>>
  task,               \* the goroutine spawned by each effective Start
  ctxView,            \* values an unsynchronized read of s.syncCtx may see
  crashed,            \* a goroutine panicked: the process is gone
  lastLog,            \* log line of the last Start/Stop call ("" if none)
  cyc,                \* per goroutine: record of its current cycle
  nStarts, nCycles, nMapOps, nRecv,
  keys,               \* the keys table: key ID -> row, or NoKey
  wallets,            \* key IDs that a WalletInfo carries as its KeyID
  ksRet,              \* what the last keystore call returned
  nextID,             \* the next value of ks.db.GenerateID()
  deleted,            \* key IDs for which a Delete has returned nil
  nKsOps,
  syncMutex,          \* s.syncMutex: the writer holding it, and how many
                      \* read locks each goroutine holds
  lpc,                \* step by step: where each goroutine using it stands
  lsync,              \* step by step: the sync goroutine's loop variables
  nLockCycles,
  explorers,          \* f.explorers: chain type -> explorer, or NoExplorer
  fcall,              \* per goroutine: its call of NewExplorer under way
  made,               \* per chain type: the explorers constructed for it
  handed,             \* per chain type: the explorers returned to callers
  mapFault,           \* the runtime met concurrent access to f.explorers
  nFactoryCalls,
  signers,            \* the signer repository: id -> signer, or NoSigner
  addresses,          \* the signer repository: id -> address, or NoAddress
  svcRet,             \* the signer service's last call: arguments and result
  nextSignerID,
  nextAddressID,
  nSvcOps,
  cin,                \* the coordinates handed to the curve: x1, y1, x2, y2
  cout                \* the curve's last call and what it returned

engineVars == << syncCtx, cancelled, syncAddresses, historyEventsChan, repository,
                 task, ctxView, crashed, lastLog, cyc, nStarts, nCycles, nMapOps, nRecv >>

keystoreVars == << keys, wallets, ksRet, nextID, deleted, nKsOps >>

\* The sync engine once more, one lock operation and one call at a time.
lockVars == << syncMutex, lpc, lsync, nLockCycles >>

\* The explorer factory: f.explorers, the calls of NewExplorer under way,
\* the explorers made and handed out per chain type.
factoryVars == << explorers, fcall, made, handed, mapFault, nFactoryCalls >>

\* The signer service: the rows behind s.repository and the last call.
signerVars == << signers, addresses, svcRet, nextSignerID, nextAddressID,
                 nSvcOps >>

\* The elliptic-curve engine: a caller's coordinates and the last result.
curveVars == << cin, cout >>

\* The block explorer's data: nothing in the server writes it.
explorerVars == << ledger >>

\* What the actions of each part never touch.
outsideEngine == << explorerVars, keystoreVars, lockVars, factoryVars, signerVars, curveVars >>
outsideKeystore == << explorerVars, engineVars, lockVars, factoryVars, signerVars, curveVars >>
outsideLock == << explorerVars, engineVars, keystoreVars, factoryVars, signerVars, curveVars >>
outsideFactory == << explorerVars, engineVars, keystoreVars, lockVars, signerVars, curveVars >>
outsideSigner == << explorerVars, engineVars, keystoreVars, lockVars, factoryVars, curveVars >>
outsideCurve == << explorerVars, engineVars, keystoreVars, lockVars, factoryVars, signerVars >>

vars == << explorerVars, engineVars, keystoreVars, lockVars, factoryVars, signerVars,
           curveVars >>

(* --------------------------- keystore: state -------------------------- *)
\* No row under this ID.
NoKey == << >>

\* A nil []byte, or a column that was not selected.
NoMaterial == << >>

KeyIDs == 1..MaxKeys

KeyTypeECDSA == "ECDSA"
KeyTypeRSA == "RSA"
\* A types.KeyType that signData has no case for.
KeyTypeOther == "DSA"
KeyTypes == {KeyTypeECDSA, KeyTypeRSA, KeyTypeOther}

\* Values of an elliptic.Curve argument.
NilCurve == "nil"
P256 == "elliptic.P256()"
Secp256k1Curve == "coreCrypto.Secp256k1Curve"
P384 == "elliptic.P384()"

CurveNameP256 == "P-256"
CurveNameSecp256k1 == "secp256k1"

\* curve.Params().Name
ParamsName(curve) ==
  CASE curve = P256 -> CurveNameP256
    [] curve = Secp256k1Curve -> CurveNameSecp256k1
    [] curve = P384 -> "P-384"

ErrCodeDatabaseError == "database_error"
ErrCodeResourceNotFound == "resource_not_found"
ErrCodeInvalidKeyType == "invalid_key_type"
ErrCodeInvalidCurve == "invalid_curve"
ErrCodeInvalidKey == "invalid_key"
ErrCodeEncryptionError == "encryption_error"
ErrCodeDecryptionError == "decryption_error"
NoErr == ""

\* curveByName(name)
curveByName(name) ==
  CASE name = CurveNameP256 -> [curve |-> P256, err |-> NoErr]
    [] name = CurveNameSecp256k1 -> [curve |-> Secp256k1Curve, err |-> NoErr]
    [] OTHER -> [curve |-> NilCurve, err |-> ErrCodeInvalidCurve]

\* Names and tag maps the callers use. A tag map is nil or {"env": "x"}.
Names == {"hot", "cold"}
\* Names given to new keys.
NewNames == {"hot"}
\* Page sizes asked of List.
Limits == {0, 1}
\* limit = 50 // Default limit
DefaultLimit == 50
Tags == {"nil", "env"}

\* json.Marshal(tags) and json.Unmarshal into a nil map.
Marshal(tags) == IF tags = "nil" THEN "null" ELSE "{\"env\":\"x\"}"
Unmarshal(tagsJSON) == IF tagsJSON = "null" THEN "nil" ELSE "env"

\* The (keyType, curve) arguments the callers use.
KeyRequests ==
  ({KeyTypeECDSA} \X {NilCurve, P256, Secp256k1Curve, P384})
    \cup ({KeyTypeRSA} \X {NilCurve, P256})
    \cup ({KeyTypeOther} \X {NilCurve})

\* ks.encryptor.Encrypt / Decrypt: authenticated encryption under the
\* master key.
Encrypt(plaintext) == << "aes-gcm", plaintext >>
Decrypt(ciphertext) == ciphertext[2]

\* ks.keyGenerator.GenerateKeyPair(keyType, curve): ECDSA over P-256 or
\* secp256k1, RSA; any other type fails with InvalidKeyType.
GenerateKeyPair(keyType, curve) ==
  CASE keyType = KeyTypeECDSA /\ curve \in {P256, Secp256k1Curve} ->
         [privateKey |-> "generated private key", publicKey |-> "generated public key", err |-> NoErr]
    [] keyType = KeyTypeECDSA ->
         [privateKey |-> NoMaterial, publicKey |-> NoMaterial, err |-> ErrCodeInvalidCurve]
    [] keyType = KeyTypeRSA ->
         [privateKey |-> "generated private key", publicKey |-> "generated public key", err |-> NoErr]
    [] OTHER ->
         [privateKey |-> NoMaterial, publicKey |-> NoMaterial, err |-> ErrCodeInvalidKeyType]

\* No keystore call has returned yet.
NoRet == [op |-> "", id |-> 0, err |-> NoErr, keys |-> << >>, sig |-> NoMaterial, token |-> 0]

\* NewDBKeyStore on an empty keys table.
NewDBKeyStore ==
  /\ keys = [id \in KeyIDs |-> NoKey]
  /\ wallets = {}
  /\ ksRet = NoRet
  /\ nextID = 1
  /\ deleted = {}
  /\ nKsOps = 0


(* ----------------------- the lock, step by step ---------------------- *)
\* The goroutine started by StartTransactionSyncing, and goroutines that
\* call MonitorAddress, UnmonitorAddress, Start- or StopTransactionSyncing.
SyncTask == "sync"
Callers == {"caller1", "caller2"}
Goroutines == {SyncTask} \cup Callers
Nobody == "nobody"

\* types.ChainType values: the three EVM chains the factory's switch
\* names, one chain known to f.chains that the switch does not name, and
\* one f.chains does not know.
ChainTypeEthereum == "ethereum"
ChainTypePolygon == "polygon"
ChainTypeBase == "base"
EVMChains == {ChainTypeEthereum, ChainTypePolygon, ChainTypeBase}
ConfiguredChains == EVMChains \cup {"solana"}
ChainTypes == {ChainTypeEthereum, ChainTypePolygon, "solana", "unknown"}
NoExplorer == 0

\* NewEtherscanExplorer allocates: an instance no earlier call made.
NewEtherscanExplorer(m) ==
  1 + Cardinality(UNION {m[ct] : ct \in DOMAIN m})

\* NewFactory: an empty explorers map, nobody inside NewExplorer.
NewFactory ==
  /\ explorers = [ct \in ChainTypes \cup EVMChains |-> NoExplorer]
  /\ fcall = [g \in Callers |->
                [pc |-> "idle", chainType |-> ChainTypeEthereum,
                 explorer |-> NoExplorer]]
  /\ made = [ct \in ChainTypes \cup EVMChains |-> {}]
  /\ handed = [ct \in ChainTypes \cup EVMChains |-> {}]
  /\ mapFault = FALSE
  /\ nFactoryCalls = 0

\* Signer service inputs. An int64 ID is 0 (missing) or a row's ID; a
\* *int64 user ID is nil (<< >>) or points to a value (<< v >>).
Internal == "internal"
External == "external"
SignerTypes == {Internal, External}
SignerIDs == 1..MaxSigners
AddressIDs == 1..MaxAddresses
IDArgs == 0..MaxSigners
NilUserID == << >>
UserIDArgs == {NilUserID, << 0 >>, << 7 >>}
SignerNames == {"", "ops"}
ChainTypeArgs == {"", ChainTypeEthereum}
AddressArgs == {"", "0xabc"}
NoSigner == [name |-> "", type |-> "", userID |-> NilUserID]
NoAddress == [signerID |-> 0, chainType |-> "", address |-> ""]
ErrCodeInvalidInput == "invalid_input"
ErrCodeSignerNotFound == "signer_not_found"
ErrCodeSignerAddressNotFound == "signer_address_not_found"

\* The arguments a call did not take are left at their zero values.
NoArgs ==
  [id |-> 0, name |-> "", signerType |-> External, userID |-> NilUserID,
   chainType |-> "", address |-> ""]

\* NewService over an empty repository; nothing called yet.
NewService ==
  /\ signers = [id \in SignerIDs |-> NoSigner]
  /\ addresses = [id \in AddressIDs |-> NoAddress]
  /\ svcRet = [op |-> "", args |-> NoArgs, err |-> NoErr, calls |-> 0]
  /\ nextSignerID = 1
  /\ nextAddressID = 1
  /\ nSvcOps = 0

\* The curve y^2 = x^3 + CurveB over the integers modulo CurveP: the
\* secp256k1 equation over a field of 13 elements in place of the 256-bit
\* prime. Like secp256k1 it has prime order (7 points with the point at
\* infinity), so no point of the curve has y = 0, and (0,0) is off the curve.
CurveP == 13
CurveB == 7
Coordinates == 0..(CurveP - 1)
NoResult == [op |-> "", x |-> 0, y |-> 0, path |-> "", invOfZero |-> FALSE]

\* Nothing handed to the curve, nothing returned.
NoCurveCall ==
  /\ cin = [x1 |-> 0, y1 |-> 0, x2 |-> 0, y2 |-> 0]
  /\ cout = NoResult

\* sync.RWMutex{}, and every goroutine outside the lock.
NewSyncMutex ==
  /\ syncMutex = [writer |-> Nobody, readers |-> [g \in Goroutines |-> 0]]
  /\ lpc = [g \in Goroutines |-> "out"]
  /\ lsync = [n |-> 0, ai |-> 0, typ |-> TxTypeNormal, items |-> 0]
  /\ nLockCycles = 0

\* The goroutine's locals. failed: blocks of the items of the current batch
\* whose GetByHash, Create or Update failed.
IdleTask ==
  [pc |-> "idle", ctx |-> NoCtx, waitCtx |-> NoCtx, addrs |-> << >>, ai |-> 0,
   typ |-> TxTypeNormal, start |-> 0, page |-> << >>, ii |-> 0,
   existing |-> << >>, failed |-> {}]

\* What a cycle has done so far. wm0: the map at the snapshot; order: the
\* order in which the snapshot is visited; errAddrs /
\* okAddrs: addresses with a failed / successful explorer call; sent: hashes
\* whose event went into the channel; quiet: no other cycle overlapped and
\* the map was not changed by Monitor/Unmonitor; clean: no repository error
\* and no dropped event; complete: the loop over the snapshot has finished.
NoCycle ==
  [wm0 |-> [a \in Addrs |-> Absent], order |-> << >>, errAddrs |-> {}, okAddrs |-> {}, sent |-> {},
   quiet |-> TRUE, clean |-> TRUE, complete |-> FALSE]

\* NewHistoryService
NewHistoryService ==
  /\ syncCtx = NoCtx
  /\ cancelled = {}
  /\ syncAddresses = [a \in Addrs |-> Absent]
  /\ historyEventsChan = << >>
  /\ repository = {}
  /\ task = [t \in Tasks |-> IdleTask]
  /\ ctxView = [t \in Tasks |-> {}]
  /\ crashed = FALSE
  /\ lastLog = ""
  /\ cyc = [t \in Tasks |-> NoCycle]
  /\ nStarts = 0 /\ nCycles = 0 /\ nMapOps = 0 /\ nRecv = 0

\* The explorer serves the given chain.
Serves(chain) == ledger = chain

\* The server after construction: every part new, no curve call made.
Init ==
  /\ Serves(MainChain)
  /\ NewHistoryService
  /\ NewDBKeyStore
  /\ NewSyncMutex
  /\ NewFactory
  /\ NewService
  /\ NoCurveCall

(* ------------------------------ helpers ------------------------------- *)
Monitored == {a \in Addrs : syncAddresses[a] # Absent}

\* Program counters at which a goroutine is inside syncTransactions.
CyclePcs == {"addr", "fetch", "item", "save", "advance"}
InCycle(t) == task[t].pc \in CyclePcs
Alive(t) == task[t].pc \notin {"idle", "done"}

\* A further cycle may begin: the initial sync of every goroutine already
\* spawned is counted in.
CycleBudget ==
  nCycles + Cardinality({t \in Tasks : task[t].pc = "init"}) < MaxCycles

\* All orders in which ranging over the map can visit the set S.
Orders(S) ==
  {s \in [1..Cardinality(S) -> S] : \A i, j \in 1..Cardinality(S) : i # j => s[i] # s[j]}

\* A write of v to s.syncCtx: a goroutine that has not synchronised with
\* the writer since may see the old or the new value on its next plain read.
\* (A torn read of the interface value mixes nil with a non-nil context and
\* panics on use like the nil value does.)
Published(v) == [t \in Tasks |-> IF Alive(t) THEN ctxView[t] \cup {v} ELSE ctxView[t]]

\* The reading goroutine took syncMutex: it has now seen every earlier write.
Synced(t) == [ctxView EXCEPT ![t] = {syncCtx}]

\* The record of a cycle that was overlapped or disturbed, or that met a
\* repository error or a full channel: nothing more is recorded about it.
Void == [NoCycle EXCEPT !.quiet = FALSE, !.clean = FALSE]

\* A call of MonitorAddress / UnmonitorAddress that changed the map during
\* a cycle or after it, before its goroutine went back to the select.
Disturbed == [t \in Tasks |-> IF cyc[t] = NoCycle THEN NoCycle ELSE Void]

(* --------------------------- public operations ------------------------ *)
\* Variant: MonitorAddress without the `exists` check: the entry is written
\* again, with the start block of this call.
MonitorAddress_Overwrites(address, startBlockNumber) ==
  /\ ~crashed
  /\ IF syncAddresses[address] # Absent
       THEN /\ syncAddresses' = [syncAddresses EXCEPT ![address] = startBlockNumber]
            /\ UNCHANGED << nMapOps, cyc >>
       ELSE /\ nMapOps < MaxMapOps
            /\ syncAddresses' = [syncAddresses EXCEPT ![address] = startBlockNumber]
            /\ nMapOps' = nMapOps + 1
            /\ cyc' = Disturbed
  /\ UNCHANGED << syncCtx, cancelled, historyEventsChan, repository, task,
                  ctxView, crashed, lastLog, nStarts, nCycles, nRecv >>
  /\ UNCHANGED outsideEngine

\* MonitorAddress, on the key deriveAddressKey made of its address.
MonitorAddress(address, startBlockNumber) ==
  /\ ~crashed
  /\ IF syncAddresses[address] # Absent
       THEN UNCHANGED << syncAddresses, nMapOps, cyc >>
       ELSE /\ nMapOps < MaxMapOps
            /\ syncAddresses' = [syncAddresses EXCEPT ![address] = startBlockNumber]
            /\ nMapOps' = nMapOps + 1
            /\ cyc' = Disturbed
  /\ UNCHANGED << syncCtx, cancelled, historyEventsChan, repository, task,
                  ctxView, crashed, lastLog, nStarts, nCycles, nRecv >>
  /\ UNCHANGED outsideEngine

UnmonitorAddress(address) ==
  /\ ~crashed
  /\ IF syncAddresses[address] = Absent
       THEN UNCHANGED << syncAddresses, nMapOps, cyc >>
       ELSE /\ nMapOps < MaxMapOps
            /\ syncAddresses' = [syncAddresses EXCEPT ![address] = Absent]
            /\ nMapOps' = nMapOps + 1
            /\ cyc' = Disturbed
  /\ UNCHANGED << syncCtx, cancelled, historyEventsChan, repository, task,
                  ctxView, crashed, lastLog, nStarts, nCycles, nRecv >>
  /\ UNCHANGED outsideEngine

\* Variant: Start without the `if s.syncCtx != nil` early return.
StartTransactionSyncing_NoGuard ==
  /\ ~crashed
  /\ nStarts < MaxStarts
  /\ CycleBudget
  /\ LET c == nStarts + 1 IN
       /\ syncCtx' = c
       /\ nStarts' = c
       /\ task' = [task EXCEPT ![c] = [IdleTask EXCEPT !.pc = "init"]]
       /\ ctxView' = [Published(c) EXCEPT ![c] = {c}]
  /\ lastLog' = "Starting transaction history syncing"
  /\ UNCHANGED << cancelled, syncAddresses, historyEventsChan, repository,
                  crashed, cyc, nCycles, nMapOps, nRecv >>
  /\ UNCHANGED outsideEngine

StartTransactionSyncing ==
  /\ ~crashed
  /\ IF syncCtx # NoCtx
       THEN /\ lastLog' = "Transaction history syncing is already active"
            /\ UNCHANGED << syncCtx, task, ctxView, nStarts >>
       ELSE /\ nStarts < MaxStarts
            /\ CycleBudget
            /\ LET c == nStarts + 1 IN
                 /\ syncCtx' = c
                 /\ nStarts' = c
                 /\ task' = [task EXCEPT ![c] = [IdleTask EXCEPT !.pc = "init"]]
                 /\ ctxView' = [Published(c) EXCEPT ![c] = {c}]
            /\ lastLog' = "Starting transaction history syncing"
  /\ UNCHANGED << cancelled, syncAddresses, historyEventsChan, repository,
                  crashed, cyc, nCycles, nMapOps, nRecv >>
  /\ UNCHANGED outsideEngine

\* Variant: Stop that forgets the context without calling syncCancel().
StopTransactionSyncing_NoCancel ==
  /\ ~crashed
  /\ IF syncCtx = NoCtx
       THEN UNCHANGED << syncCtx, cancelled, ctxView, lastLog >>
       ELSE /\ cancelled' = cancelled
            /\ syncCtx' = NoCtx
            /\ ctxView' = Published(NoCtx)
            /\ lastLog' = "Transaction history syncing stopped"
  /\ UNCHANGED << syncAddresses, historyEventsChan, repository, task, crashed,
                  cyc, nStarts, nCycles, nMapOps, nRecv >>
  /\ UNCHANGED outsideEngine

StopTransactionSyncing ==
  /\ ~crashed
  /\ IF syncCtx = NoCtx
       THEN UNCHANGED << syncCtx, cancelled, ctxView, lastLog >>
       ELSE /\ cancelled' = cancelled \cup {syncCtx}
            /\ syncCtx' = NoCtx
            /\ ctxView' = Published(NoCtx)
            /\ lastLog' = "Transaction history syncing stopped"
  /\ UNCHANGED << syncAddresses, historyEventsChan, repository, task, crashed,
                  cyc, nStarts, nCycles, nMapOps, nRecv >>
  /\ UNCHANGED outsideEngine

\* A listener receives from the channel returned by HistoryEvents().
HistoryEvents ==
  /\ ~crashed
  /\ nRecv < MaxRecv
  /\ historyEventsChan # << >>
  /\ historyEventsChan' = Tail(historyEventsChan)
  /\ nRecv' = nRecv + 1
  /\ UNCHANGED << syncCtx, cancelled, syncAddresses, repository, task, ctxView,
                  crashed, lastLog, cyc, nStarts, nCycles, nMapOps >>
  /\ UNCHANGED outsideEngine

(* ------------------------- the background goroutine ------------------- *)
\* A step of the goroutine is one access to state shared with other
\* goroutines (the map under syncMutex, the contexts, the repository, the
\* channel) together with the goroutine-local computation that follows it,
\* up to the next such access.

\* Leaving syncTransactionsForAddressByType: the ERC20 sub-fetch follows the
\* normal one (syncTransactionsForAddress), then the next address of the
\* snapshot, then the end of syncTransactions.
AfterType(r) ==
  LET q == [r EXCEPT !.start = 0, !.page = << >>, !.ii = 0, !.existing = << >>,
                     !.failed = {}]
  IN  IF r.typ = TxTypeNormal
        THEN [q EXCEPT !.typ = TxTypeERC20, !.pc = "fetch"]
        ELSE IF r.ai < Len(r.addrs)
          THEN [q EXCEPT !.typ = TxTypeNormal, !.ai = r.ai + 1, !.pc = "addr"]
          ELSE [IdleTask EXCEPT !.pc = "wait"]

\* The next item of page.Items, or the code after the loop.
NextItem(r) ==
  LET q == [r EXCEPT !.existing = << >>]
  IN  IF r.ii < Len(r.page)
        THEN [q EXCEPT !.ii = r.ii + 1, !.pc = "item"]
        ELSE [q EXCEPT !.pc = "advance"]

\* The cycle record c after a step that left the goroutine in r.
Noted(c, r) ==
  IF ~c.quiet \/ ~c.clean THEN Void ELSE [c EXCEPT !.complete = (r.pc = "wait")]

\* Variant: an explorer error ends the whole cycle instead of the sub-fetch.
Fetched_AbortOnError(r, ok) ==
  LET page == GetTransactionHistory(r.addrs[r.ai], r.typ, r.start)
  IN  IF ~ok
        THEN [IdleTask EXCEPT !.pc = "wait"]
        ELSE IF Len(page) = 0
               THEN AfterType(r)
               ELSE [r EXCEPT !.page = page, !.ii = 1, !.pc = "item"]

\* Variant: a failed normal sub-fetch returns from
\* syncTransactionsForAddress, and the ERC20 sub-fetch of that address is
\* not made.
Fetched_ErrorSkipsERC20(r, ok) ==
  LET page == GetTransactionHistory(r.addrs[r.ai], r.typ, r.start)
  IN  IF ~ok
        THEN AfterType([r EXCEPT !.typ = TxTypeERC20])
        ELSE IF Len(page) = 0
               THEN AfterType(r)
               ELSE [r EXCEPT !.page = page, !.ii = 1, !.pc = "item"]

\* explorer.GetTransactionHistory(...) for the sub-fetch of r.typ from
\* r.start: with ok = FALSE it returns an error, else the page; the locals
\* after `if len(page.Items) == 0 { return nil }`.
Fetched(r, ok) ==
  LET page == GetTransactionHistory(r.addrs[r.ai], r.typ, r.start)
  IN  IF ~ok \/ Len(page) = 0
        THEN AfterType(r)
        ELSE [r EXCEPT !.page = page, !.ii = 1, !.pc = "item"]

\* The cycle record after that explorer call.
FetchNoted(c, r, ok) ==
  Noted(IF ok THEN [c EXCEPT !.okAddrs = @ \cup {r.addrs[r.ai]}]
              ELSE [c EXCEPT !.errAddrs = @ \cup {r.addrs[r.ai]}], Fetched(r, ok))

\* syncTransactions(s.syncCtx): the argument c is a plain read of s.syncCtx;
\* the address snapshot is taken under the read lock.
BeginCycle(t, c) ==
  /\ \E ord \in Orders(Monitored) :
       /\ task' = [task EXCEPT ![t] =
                     IF Monitored = {}
                       THEN [IdleTask EXCEPT !.pc = "wait"]
                       ELSE [IdleTask EXCEPT !.pc = "addr", !.ctx = c, !.addrs = ord,
                                             !.ai = 1]]
       /\ cyc' = [u \in Tasks |->
                    IF u = t
                      THEN IF \E v \in Tasks \ {t} : InCycle(v)
                             THEN Void
                             ELSE [NoCycle EXCEPT !.wm0 = syncAddresses, !.order = ord,
                                                  !.complete = (Monitored = {})]
                      ELSE IF cyc[u] = NoCycle THEN NoCycle ELSE Void]
  /\ ctxView' = Synced(t)
  /\ nCycles' = nCycles + 1

\* Variant: the goroutine goes to its select first; the first cycle waits
\* for the first tick.
TaskInitialSync_WaitsForTick(t) ==
  /\ ~crashed
  /\ task[t].pc = "init"
  /\ task' = [task EXCEPT ![t] = [IdleTask EXCEPT !.pc = "wait"]]
  /\ UNCHANGED << syncCtx, cancelled, syncAddresses, historyEventsChan, repository,
                  ctxView, crashed, lastLog, cyc, nStarts, nCycles, nMapOps, nRecv >>
  /\ UNCHANGED outsideEngine

\* go func() { ...; s.syncTransactions(s.syncCtx)  (initial sync)
TaskInitialSync(t) ==
  /\ ~crashed
  /\ task[t].pc = "init"
  /\ \E c \in ctxView[t] : BeginCycle(t, c)
  /\ UNCHANGED << syncCtx, cancelled, syncAddresses, historyEventsChan, repository,
                  crashed, lastLog, nStarts, nMapOps, nRecv >>
  /\ UNCHANGED outsideEngine

\* getStartBlock(address)
getStartBlock(address) ==
  IF syncAddresses[address] = Absent THEN 0 ELSE syncAddresses[address]

\* Variant: the loop over the snapshot without the ctx.Err() check.
TaskSyncAddress_NoCtxCheck(t) ==
  LET r == task[t] IN
  /\ ~crashed
  /\ r.pc = "addr"
  /\ \E ok \in BOOLEAN :
       LET q == [r EXCEPT !.typ = TxTypeNormal,
                          !.start = getStartBlock(r.addrs[r.ai])]
       IN  /\ task' = [task EXCEPT ![t] = Fetched(q, ok)]
           /\ cyc' = [cyc EXCEPT ![t] = FetchNoted(@, q, ok)]
  /\ ctxView' = Synced(t)
  /\ UNCHANGED << syncCtx, cancelled, syncAddresses, historyEventsChan, repository,
                  crashed, lastLog, nStarts, nCycles, nMapOps, nRecv >>
  /\ UNCHANGED outsideEngine

\* for _, address := range addresses { if ctx.Err() != nil { return }
\* then syncTransactionsForAddress: the normal sub-fetch reads the start
\* block and calls the explorer.
TaskSyncAddress(t) ==
  LET r == task[t] IN
  /\ ~crashed
  /\ r.pc = "addr"
  /\ IF r.ctx = NoCtx
       THEN \* ctx.Err() on a nil interface: nil pointer dereference
            /\ crashed' = TRUE
            /\ UNCHANGED << task, ctxView, cyc >>
       ELSE IF r.ctx \in cancelled
         THEN /\ task' = [task EXCEPT ![t] = [IdleTask EXCEPT !.pc = "wait"]]
              /\ UNCHANGED << ctxView, crashed, cyc >>
         ELSE /\ \E ok \in BOOLEAN :
                   LET q == [r EXCEPT !.typ = TxTypeNormal,
                                      !.start = getStartBlock(r.addrs[r.ai])]
                   IN  /\ task' = [task EXCEPT ![t] = Fetched(q, ok)]
                       /\ cyc' = [cyc EXCEPT ![t] = FetchNoted(@, q, ok)]
              /\ ctxView' = Synced(t)
              /\ UNCHANGED crashed
  /\ UNCHANGED << syncCtx, cancelled, syncAddresses, historyEventsChan, repository,
                  lastLog, nStarts, nCycles, nMapOps, nRecv >>
  /\ UNCHANGED outsideEngine

\* The ERC20 sub-fetch reads the start block and calls the explorer.
TaskSyncERC20(t) ==
  LET r == task[t] IN
  /\ ~crashed
  /\ r.pc = "fetch"
  /\ \E ok \in BOOLEAN :
       LET q == [r EXCEPT !.start = getStartBlock(r.addrs[r.ai])]
       IN  /\ task' = [task EXCEPT ![t] = Fetched(q, ok)]
           /\ cyc' = [cyc EXCEPT ![t] = FetchNoted(@, q, ok)]
  /\ ctxView' = Synced(t)
  /\ UNCHANGED << syncCtx, cancelled, syncAddresses, historyEventsChan, repository,
                  crashed, lastLog, nStarts, nCycles, nMapOps, nRecv >>
  /\ UNCHANGED outsideEngine

\* Row IDs of the rows with this hash.
RowsByHash(h) == {id \in repository : id[1] = h}

\* No row: GetByHash returned ErrCodeTransactionNotFound.
NoRow == << >>

\* Variant: an error of GetByHash or of the token store ends the sub-fetch
\* (`return err`) instead of skipping the item (`continue`).
TaskGetByHash_ErrorReturns(t) ==
  LET r == task[t]
      item == r.page[r.ii]
  IN
  /\ ~crashed
  /\ r.pc = "item"
  /\ IF item.veto \/ (r.typ = TxTypeERC20 /\ ~item.tracked)
       THEN /\ task' = [task EXCEPT ![t] = NextItem(r)]
            /\ UNCHANGED cyc
       ELSE \/ /\ task' = [task EXCEPT ![t] = AfterType(r)]
               /\ cyc' = [cyc EXCEPT ![t] = Void]
            \/ /\ \E id \in (IF RowsByHash(item.hash) = {} THEN {NoRow} ELSE RowsByHash(item.hash)) :
                    task' = [task EXCEPT ![t] = [r EXCEPT !.existing = id, !.pc = "save"]]
               /\ UNCHANGED cyc
  /\ UNCHANGED << syncCtx, cancelled, syncAddresses, historyEventsChan, repository,
                  ctxView, crashed, lastLog, nStarts, nCycles, nMapOps, nRecv >>
  /\ UNCHANGED outsideEngine

\* Variant: the ERC20 sub-fetch does not call isValidERC20Token.
TaskGetByHash_NoTokenCheck(t) ==
  LET r == task[t]
      item == r.page[r.ii]
  IN
  /\ ~crashed
  /\ r.pc = "item"
  /\ IF item.veto
       THEN /\ task' = [task EXCEPT ![t] = NextItem(r)]
            /\ UNCHANGED cyc
       ELSE \/ /\ task' = [task EXCEPT ![t] = NextItem([r EXCEPT !.failed = @ \cup {item.block}])]
               /\ cyc' = [cyc EXCEPT ![t] = Void]
            \/ /\ \E id \in (IF RowsByHash(item.hash) = {} THEN {NoRow} ELSE RowsByHash(item.hash)) :
                    task' = [task EXCEPT ![t] = [r EXCEPT !.existing = id, !.pc = "save"]]
               /\ UNCHANGED cyc
  /\ UNCHANGED << syncCtx, cancelled, syncAddresses, historyEventsChan, repository,
                  ctxView, crashed, lastLog, nStarts, nCycles, nMapOps, nRecv >>
  /\ UNCHANGED outsideEngine

\* transformerService.Apply, isValidERC20Token, repository.GetByHash.
TaskGetByHash(t) ==
  LET r == task[t]
      item == r.page[r.ii]
  IN
  /\ ~crashed
  /\ r.pc = "item"
  /\ IF item.veto \/ (r.typ = TxTypeERC20 /\ ~item.tracked)
       THEN /\ task' = [task EXCEPT ![t] = NextItem(r)]
            /\ UNCHANGED cyc
       ELSE \/ \* tokenStore.GetToken fails: isValidERC20Token returns false
               /\ r.typ = TxTypeERC20
               /\ task' = [task EXCEPT ![t] = NextItem(r)]
               /\ cyc' = [cyc EXCEPT ![t] = Void]
            \/ \* GetByHash: an error other than ErrCodeTransactionNotFound
               /\ task' = [task EXCEPT ![t] = NextItem([r EXCEPT !.failed = @ \cup {item.block}])]
               /\ cyc' = [cyc EXCEPT ![t] = Void]
            \/ \* found, or not found
               /\ \E id \in (IF RowsByHash(item.hash) = {} THEN {NoRow} ELSE RowsByHash(item.hash)) :
                    task' = [task EXCEPT ![t] = [r EXCEPT !.existing = id, !.pc = "save"]]
               /\ UNCHANGED cyc
  /\ UNCHANGED << syncCtx, cancelled, syncAddresses, historyEventsChan, repository,
                  ctxView, crashed, lastLog, nStarts, nCycles, nMapOps, nRecv >>
  /\ UNCHANGED outsideEngine

\* Variant: the event is put in front of the events already waiting.
Emit_InFront(event) ==
  historyEventsChan' = IF Len(historyEventsChan) < ChanCap
                         THEN << event >> \o historyEventsChan
                         ELSE historyEventsChan

\* Variant: a plain channel send, which waits while the channel is full.
Emit_Blocking(event) ==
  /\ Len(historyEventsChan) < ChanCap
  /\ historyEventsChan' = Append(historyEventsChan, event)

\* select { case s.historyEventsChan <- event: ... default: (dropped) }:
\* the non-blocking send.
Emit(event) ==
  historyEventsChan' = IF Len(historyEventsChan) < ChanCap
                         THEN Append(historyEventsChan, event)
                         ELSE historyEventsChan

\* repository.Update(serviceTx) with serviceTx.ID = existingTx.ID: the row
\* with that ID now holds the transaction fetched for hash h, which is what
\* it held before (the explorer's data for a hash does not change).
Update(id, h) == (repository \ {id}) \cup {<< h, id[2] >>}

\* repository.Create(serviceTx): one more row, under a fresh ID.
Create(h) == repository \cup {<< h, Cardinality(RowsByHash(h)) + 1 >>}

\* repository.Update (existingTx != nil) or repository.Create, then the
\* event is offered to the channel.
TaskSave(t) ==
  LET r == task[t]
      item == r.page[r.ii]
      event == [hash |-> item.hash, isNew |-> (r.existing = NoRow)]
  IN
  /\ ~crashed
  /\ r.pc = "save"
  /\ \/ \* the call fails
        /\ task' = [task EXCEPT ![t] = NextItem([r EXCEPT !.failed = @ \cup {item.block}])]
        /\ cyc' = [cyc EXCEPT ![t] = Void]
        /\ UNCHANGED << repository, historyEventsChan >>
     \/ /\ repository' =
             IF r.existing # NoRow
               THEN Update(r.existing, item.hash)
               ELSE Create(item.hash)
        /\ Emit(event)
        /\ cyc' = [cyc EXCEPT ![t] =
                     IF historyEventsChan' = historyEventsChan
                       THEN Void
                       ELSE Noted([@ EXCEPT !.sent = @ \cup {item.hash}], r)]
        /\ task' = [task EXCEPT ![t] = NextItem(r)]
  /\ UNCHANGED << syncCtx, cancelled, syncAddresses, ctxView,
                  crashed, lastLog, nStarts, nCycles, nMapOps, nRecv >>
  /\ UNCHANGED outsideEngine

\* Variant: setStartBlock without the `if !exists { return }` check.
setStartBlock_NoExistsCheck(address, blockNumber) ==
  [syncAddresses EXCEPT ![address] = blockNumber]

\* setStartBlock(address, blockNumber)
setStartBlock(address, blockNumber) ==
  IF syncAddresses[address] = Absent
    THEN syncAddresses
    ELSE [syncAddresses EXCEPT ![address] = blockNumber]

\* latestBlockNumber := page.Items[len-1]...BlockNumber; setStartBlock(+1)
TaskSetStartBlock(t) ==
  LET r == task[t]
      latestBlockNumber == r.page[Len(r.page)].block
  IN
  /\ ~crashed
  /\ r.pc = "advance"
  /\ syncAddresses' = setStartBlock(r.addrs[r.ai], latestBlockNumber + 1)
  /\ task' = [task EXCEPT ![t] = AfterType(r)]
  /\ cyc' = [cyc EXCEPT ![t] = Noted(@, AfterType(r))]
  /\ ctxView' = Synced(t)
  /\ UNCHANGED << syncCtx, cancelled, historyEventsChan, repository, crashed, lastLog,
                  nStarts, nCycles, nMapOps, nRecv >>
  /\ UNCHANGED outsideEngine

\* for { select { case <-s.syncCtx.Done(): ... : the channel expression is
\* evaluated on entering the select, by a plain read of s.syncCtx.
TaskSelect(t) ==
  /\ ~crashed
  /\ task[t].pc = "wait"
  /\ \E c \in ctxView[t] :
       IF c = NoCtx
         THEN \* Done() on a nil interface: nil pointer dereference
              /\ crashed' = TRUE
              /\ UNCHANGED << task, cyc >>
         ELSE /\ task' = [task EXCEPT ![t] = [IdleTask EXCEPT !.pc = "select", !.waitCtx = c]]
              /\ cyc' = [cyc EXCEPT ![t] = NoCycle]
              /\ UNCHANGED crashed
  /\ UNCHANGED << syncCtx, cancelled, syncAddresses, historyEventsChan, repository,
                  ctxView, lastLog, nStarts, nCycles, nMapOps, nRecv >>
  /\ UNCHANGED outsideEngine

\* case <-s.syncCtx.Done(): return
TaskDone(t) ==
  /\ ~crashed
  /\ task[t].pc = "select"
  /\ task[t].waitCtx \in cancelled
  /\ task' = [task EXCEPT ![t] = [IdleTask EXCEPT !.pc = "done"]]
  /\ UNCHANGED << syncCtx, cancelled, syncAddresses, historyEventsChan, repository,
                  ctxView, crashed, lastLog, cyc, nStarts, nCycles, nMapOps, nRecv >>
  /\ UNCHANGED outsideEngine

\* case <-ticker.C: s.syncTransactions(s.syncCtx)
TaskTick(t) ==
  /\ ~crashed
  /\ task[t].pc = "select"
  /\ CycleBudget
  /\ \E c \in ctxView[t] : BeginCycle(t, c)
  /\ UNCHANGED << syncCtx, cancelled, syncAddresses, historyEventsChan, repository,
                  crashed, lastLog, nStarts, nMapOps, nRecv >>
  /\ UNCHANGED outsideEngine

Next ==
  \/ \E a \in Addrs, b \in StartBlocks : MonitorAddress(a, b)
  \/ \E a \in Addrs : UnmonitorAddress(a)
  \/ StartTransactionSyncing
  \/ StopTransactionSyncing
  \/ HistoryEvents
  \/ \E t \in Tasks :
       \/ TaskInitialSync(t)
       \/ TaskSyncAddress(t)
       \/ TaskSyncERC20(t)
       \/ TaskGetByHash(t)
       \/ TaskSave(t)
       \/ TaskSetStartBlock(t)
       \/ TaskSelect(t)
       \/ TaskDone(t)
       \/ TaskTick(t)

Spec == Init /\ [][Next]_vars


(* ------------------------------ the claims ---------------------------- *)
Last(q) == q[Len(q)]

\* A transaction the sub-fetch persists when the repository works: the
\* transform keeps it and, for an ERC20 transfer, its token is tracked.
Eligible(x) == ~x.veto /\ (x.typ = TxTypeNormal \/ x.tracked)

ChainTxs == {Chain[i] : i \in 1..Len(Chain)}

\* C1: at any moment at most one execution of syncTransactions is in
\* progress, also when a Stop and a Start arrive while a cycle is running.
C1_AtMostOneCycle == Cardinality({t \in Tasks : InCycle(t)}) <= 1

\* C2: the StartBlock of an address that stays monitored never decreases.
C2_WatermarkMonotone ==
  [][\A a \in Addrs :
       (syncAddresses[a] # Absent /\ syncAddresses'[a] # Absent)
         => syncAddresses'[a] >= syncAddresses[a]]_vars

\* C3: a sub-fetch does not move the watermark of its address beyond the
\* block of a transaction of its batch whose GetByHash, Create or Update
\* failed.
C3_NoAdvancePastFailed ==
  [][\A t \in Tasks :
       (task[t].pc = "advance" /\ task'[t].pc # "advance")
         => \A b \in task[t].failed :
              syncAddresses'[task[t].addrs[task[t].ai]] <= b]_vars

\* C4: after one undisturbed cycle in which no explorer or repository call
\* failed and no event was dropped, every normal transaction and every
\* ERC20 transfer of a tracked token of a snapshot address, at or above the
\* start block the address had at the snapshot, has a row and was emitted.
C4_AllPersisted ==
  \A t \in Tasks :
    (cyc[t].complete /\ cyc[t].quiet /\ cyc[t].clean /\ cyc[t].errAddrs = {})
      => \A x \in ChainTxs :
           (cyc[t].wm0[x.addr] # Absent /\ x.block >= cyc[t].wm0[x.addr] /\ Eligible(x))
             => (RowsByHash(x.hash) # {} /\ x.hash \in cyc[t].sent)

\* What the two sub-fetches of address b return in a cycle that finds the
\* start block w0 and is not disturbed: the normal page from w0, then the
\* ERC20 page from the start block the normal sub-fetch left.
ReturnedTo(b, w0) ==
  LET pn == GetTransactionHistory(b, TxTypeNormal, w0)
      w1 == IF Len(pn) = 0 THEN w0 ELSE Last(pn).block + 1
      pe == GetTransactionHistory(b, TxTypeERC20, w1)
  IN  {pn[i] : i \in 1..Len(pn)} \cup {pe[i] : i \in 1..Len(pe)}

\* A completed, undisturbed cycle of goroutine t over a snapshot holding a
\* and b, in which every explorer call for a failed, none for b failed, and
\* no repository call failed and no event was dropped.
OneFailsOtherSucceeds(t, a, b) ==
  /\ a # b
  /\ cyc[t].complete /\ cyc[t].quiet /\ cyc[t].clean
  /\ cyc[t].wm0[a] # Absent /\ cyc[t].wm0[b] # Absent
  /\ a \in cyc[t].errAddrs /\ a \notin cyc[t].okAddrs
  /\ b \notin cyc[t].errAddrs

\* C5: in one cycle over two monitored addresses where every explorer call
\* for one fails and the calls for the other succeed, the transactions
\* returned for the other are persisted and emitted and its watermark is
\* advanced, the failing address keeps its watermark, and the cycle returns
\* to the goroutine's loop, whichever address is visited first.
C5_PartialFailureIsolation ==
  \A t \in Tasks : \A a, b \in Addrs :
    OneFailsOtherSucceeds(t, a, b)
      => /\ \A x \in ReturnedTo(b, cyc[t].wm0[b]) :
              Eligible(x) => (RowsByHash(x.hash) # {} /\ x.hash \in cyc[t].sent)
         /\ (ReturnedTo(b, cyc[t].wm0[b]) # {} => syncAddresses[b] > cyc[t].wm0[b])
         /\ syncAddresses[a] = cyc[t].wm0[a]
         /\ task[t].pc = "wait"

\* The failing address A was visited first, and B's transaction was
\* persisted and emitted.
C5_Witness ==
  \E t \in Tasks :
    /\ OneFailsOtherSucceeds(t, "A", "B")
    /\ cyc[t].order = << "A", "B" >>
    /\ "n3" \in cyc[t].sent
    /\ syncAddresses["B"] = 102

\* The step of goroutine t that persists the current item, offers its
\* event and moves on to the next item, leaving a full channel as it is.
PersistAndMoveOn(t) ==
  /\ TaskSave(t)
  /\ (\E id \in repository' : id[1] = task[t].page[task[t].ii].hash)
  /\ task'[t] = NextItem(task[t])
  /\ (Len(historyEventsChan) >= ChanCap => historyEventsChan' = historyEventsChan)

\* C6: publishing never blocks the sync loop: whatever the channel holds,
\* also its full capacity, the goroutine can persist the transaction and go
\* on with the next one; a step that persists a transaction while the
\* channel is full leaves the channel as it is (the event is dropped), keeps
\* the row and goes on to the next item.
C6_NonBlockingPublish ==
  /\ [](\A t \in Tasks : (task[t].pc = "save" /\ ~crashed) => ENABLED PersistAndMoveOn(t))
  /\ [][\A t \in Tasks :
          (task[t].pc = "save" /\ task'[t].pc # "save"
             /\ task'[t].failed = task[t].failed /\ Len(historyEventsChan) >= ChanCap)
            => /\ historyEventsChan' = historyEventsChan
               /\ (\E id \in repository' : id[1] = task[t].page[task[t].ii].hash)
               /\ task'[t] = NextItem(task[t])]_vars

\* No consumer took an event, the channel is full, the row of n2 is stored
\* but its event is not in the channel, and the cycle has completed.
C6_Witness ==
  /\ nRecv = 0
  /\ Len(historyEventsChan) = ChanCap
  /\ RowsByHash("n2") # {}
  /\ \A i \in 1..Len(historyEventsChan) : historyEventsChan[i].hash # "n2"
  /\ \E t \in Tasks : task[t].pc = "wait"

\* C7: a transaction whose hash is already stored is never inserted again:
\* a goroutine about to call Create (GetByHash found no row) handles a hash
\* that has no row, and after any number of cycles the repository holds at
\* most one row per hash.
C7_OneRowPerHash ==
  /\ \A t \in Tasks :
       (task[t].pc = "save" /\ task[t].existing = NoRow)
         => RowsByHash(task[t].page[task[t].ii].hash) = {}
  /\ \A x \in ChainTxs : Cardinality(RowsByHash(x.hash)) <= 1

\* C8: StartTransactionSyncing called while the engine is running spawns no
\* goroutine, leaves the stored context and every other part of the engine
\* as it is, and only logs that syncing is already active.
C8_StartWhileRunningIsNoOp ==
  [][(StartTransactionSyncing /\ syncCtx # NoCtx)
       => /\ UNCHANGED << syncCtx, cancelled, syncAddresses, historyEventsChan,
                          repository, task, ctxView, crashed, cyc, nStarts >>
          /\ lastLog' = "Transaction history syncing is already active"]_vars

\* Start was called while the engine was running, with a goroutine alive.
C8_Witness ==
  /\ lastLog = "Transaction history syncing is already active"
  /\ syncCtx = 1
  /\ Alive(1) /\ ~Alive(2)

\* C9: StopTransactionSyncing called while the engine is running cancels
\* the context created by the last Start that took effect and leaves the
\* engine stopped; called while the engine is stopped it changes nothing.
C9_StopCancelsAndStops ==
  [][StopTransactionSyncing
       => IF syncCtx # NoCtx
            THEN /\ syncCtx = nStarts
                 /\ cancelled' = cancelled \cup {nStarts}
                 /\ syncCtx' = NoCtx
                 /\ UNCHANGED << syncAddresses, historyEventsChan, repository, task >>
            ELSE UNCHANGED vars]_vars

\* Stop was called while the engine was running: the context of the first
\* Start is cancelled and the engine is stopped.
C9_Witness ==
  /\ lastLog = "Transaction history syncing stopped"
  /\ syncCtx = NoCtx
  /\ 1 \in cancelled
  /\ Alive(1)

\* C10: a goroutine whose Start's context has been cancelled by Stop runs no
\* further cycle and terminates: a cycle it is in carries a cancelled
\* context (it began before the Stop, or is interrupted at the next address)
\* or none, and when it waits in the select, it waits on a cancelled
\* context, so that its only step is to return.
C10_StoppedTaskTerminates ==
  \A t \in Tasks :
    t \in cancelled
      => /\ InCycle(t) => task[t].ctx \in cancelled \cup {NoCtx}
         /\ task[t].pc = "select" => task[t].waitCtx \in cancelled

(* ---------------- the engine with a nearly full channel ---------------- *)
\* The event left in the channel by each earlier cycle over B.
EarlierEvent(i) == [hash |-> "n3", isNew |-> (i = 1)]

\* The engine after ChanCap - 1 rounds of MonitorAddress(B, 100), Start, one
\* cycle, Stop, UnmonitorAddress(B) with no consumer: stopped, nothing
\* monitored, the row of n3 stored, ChanCap - 1 undrained events.
InitFull ==
  /\ Serves(MainChain)
  /\ syncCtx = NoCtx
  /\ cancelled = {}
  /\ syncAddresses = [a \in Addrs |-> Absent]
  /\ historyEventsChan = [i \in 1..(ChanCap - 1) |-> EarlierEvent(i)]
  /\ repository = {<< "n3", 1 >>}
  /\ task = [t \in Tasks |-> IdleTask]
  /\ ctxView = [t \in Tasks |-> {}]
  /\ crashed = FALSE
  /\ lastLog = "Transaction history syncing stopped"
  /\ cyc = [t \in Tasks |-> NoCycle]
  /\ nStarts = 0 /\ nCycles = 0 /\ nMapOps = 0 /\ nRecv = 0
  /\ NewDBKeyStore
  /\ NewSyncMutex
  /\ NewFactory
  /\ NewService
  /\ NoCurveCall

SpecFull == InitFull /\ [][Next]_vars

(* --------------------------- claims C11..C16 --------------------------- *)
\* The position that follows the sub-fetch of r.typ for the address r.ai in
\* q: the ERC20 sub-fetch of the same address after the normal one, the next
\* address of the same snapshot after the ERC20 one, the end of the cycle
\* after the last address.
FollowsSubFetch(r, q) ==
  IF r.typ = TxTypeNormal
    THEN q.pc = "fetch" /\ q.typ = TxTypeERC20 /\ q.ai = r.ai /\ q.addrs = r.addrs
    ELSE IF r.ai < Len(r.addrs)
      THEN q.pc = "addr" /\ q.ai = r.ai + 1 /\ q.addrs = r.addrs
      ELSE q.pc = "wait"

\* The position that follows the item r.ii of the page in q: the next item
\* of the same page, or the end of the loop after the last one.
FollowsItem(r, q) ==
  /\ q.addrs = r.addrs /\ q.ai = r.ai /\ q.typ = r.typ /\ q.page = r.page
  /\ IF r.ii < Len(r.page)
       THEN q.pc = "item" /\ q.ii = r.ii + 1
       ELSE q.pc = "advance" /\ q.ii = r.ii

\* The items of the page of r are being processed in q, from the first.
EntersItems(r, q) ==
  /\ q.pc = "item" /\ q.ii = 1 /\ q.page # << >>
  /\ q.addrs = r.addrs /\ q.ai = r.ai

\* A step of goroutine t inside a cycle whose context is live ends, whatever
\* the explorer factory, the explorer, the token store or the repository
\* answered, at the position that follows in the cycle.
StepKeepsCycleGoing(t) ==
  LET r == task[t]
      q == task'[t]
  IN  /\ ~crashed'
      /\ q.pc # "done"
      /\ CASE r.pc = "addr"    -> EntersItems(r, q)
                                  \/ FollowsSubFetch([r EXCEPT !.typ = TxTypeNormal], q)
           [] r.pc = "fetch"   -> (EntersItems(r, q) /\ q.typ = TxTypeERC20)
                                  \/ FollowsSubFetch(r, q)
           [] r.pc = "item"    -> (q = [r EXCEPT !.pc = "save", !.existing = q.existing])
                                  \/ FollowsItem(r, q)
           [] r.pc = "save"    -> FollowsItem(r, q)
           [] r.pc = "advance" -> FollowsSubFetch(r, q)

\* C11: a failure of the explorer factory, of an explorer fetch, of the
\* token store or of a repository operation never ends the goroutine and
\* never aborts the cycle: every step of a goroutine inside a cycle under a
\* live context leads to the next item, sub-fetch or address of that cycle,
\* and a goroutine waiting between cycles under a live context can always
\* run the next cycle at a tick.
C11_FailuresNeverAbort ==
  /\ [](\A t \in Tasks :
          (task[t].pc = "select" /\ task[t].waitCtx \notin cancelled
             /\ CycleBudget /\ ~crashed) => ENABLED TaskTick(t))
  /\ [][\A t \in Tasks :
          (InCycle(t) /\ task'[t] # task[t]
             /\ ~(task[t].pc = "addr" /\ task[t].ctx \in cancelled \cup {NoCtx}))
            => StepKeepsCycleGoing(t)]_vars

\* Every explorer call for A, which came first, failed, and the goroutine
\* is storing a transaction of B in the same cycle.
C11_Witness ==
  \E t \in Tasks :
    /\ cyc[t].errAddrs = {"A"} /\ "A" \notin cyc[t].okAddrs
    /\ task[t].pc = "save"
    /\ task[t].addrs = << "A", "B" >>
    /\ task[t].ai = 2

\* C14: cancellation is checked before each address of the snapshot: a
\* goroutine that reaches an address with the context of its cycle cancelled
\* leaves the cycle there, without an explorer call, a repository call, an
\* event or a change of a start block.
C14_CancelStopsAtNextAddress ==
  [][\A t \in Tasks :
       (task[t].pc = "addr" /\ task[t].ctx \in cancelled /\ task'[t] # task[t])
         => /\ task'[t].pc = "wait"
            /\ UNCHANGED << syncAddresses, repository, historyEventsChan >>]_vars

\* A cycle over A and B under context 1 was left at B after Stop: A was
\* synced, B was not, and the goroutine is back in its loop.
C14_Witness ==
  /\ 1 \in cancelled
  /\ task[1].pc = "wait"
  /\ cyc[1].order = << "A", "B" >>
  /\ cyc[1].quiet /\ ~cyc[1].complete
  /\ "A" \in cyc[1].okAddrs
  /\ "B" \notin cyc[1].okAddrs \cup cyc[1].errAddrs

\* C15: the goroutine of a Start that takes effect runs one cycle at once,
\* before any wait for a tick, and begins every later cycle from its select
\* only, that is after its previous cycle has returned.
C15_ImmediateThenTicks ==
  /\ [](\A t \in Tasks : (task[t].pc = "init" /\ ~crashed) => ENABLED TaskInitialSync(t))
  /\ [][/\ (StartTransactionSyncing /\ syncCtx = NoCtx) => task'[nStarts + 1].pc = "init"
        /\ \A t \in Tasks :
             task'[t] # task[t]
               => /\ task[t].pc = "init" => nCycles' = nCycles + 1
                  /\ nCycles' = nCycles + 1 => task[t].pc \in {"init", "select"}
                  /\ (InCycle(t)' /\ ~InCycle(t)) => nCycles' = nCycles + 1]_vars

\* The only goroutine is inside its second cycle, begun at a tick.
C15_Witness ==
  /\ nStarts = 1
  /\ nCycles = 2
  /\ InCycle(1)

\* C16: the entry of an address in the map changes in three ways only:
\* MonitorAddress of that address, unmonitored before, stores the given start
\* block; a sub-fetch for that address, monitored, changes its start block;
\* UnmonitorAddress of that address removes it. UnmonitorAddress of an
\* unmonitored address changes nothing, and no step changes the entries of
\* two addresses.
C16_AddressLifecycle ==
  [][/\ \A a \in Addrs :
          /\ (syncAddresses[a] = Absent /\ syncAddresses'[a] # Absent)
               => \E b \in StartBlocks : MonitorAddress(a, b) /\ syncAddresses'[a] = b
          /\ (syncAddresses[a] # Absent /\ syncAddresses'[a] = Absent)
               => UnmonitorAddress(a)
          /\ (syncAddresses[a] # Absent /\ syncAddresses'[a] # Absent
                /\ syncAddresses'[a] # syncAddresses[a])
               => \E t \in Tasks :
                    /\ task[t].pc = "advance" /\ task[t].addrs[task[t].ai] = a
                    /\ TaskSetStartBlock(t)
          /\ (UnmonitorAddress(a) /\ syncAddresses[a] = Absent) => UNCHANGED vars
          /\ \A b \in Addrs \ {a} :
               syncAddresses'[a] # syncAddresses[a] => syncAddresses'[b] = syncAddresses[b]
     ]_vars

\* A was monitored and then unmonitored, and a sub-fetch for A that stored
\* the transaction at block 103 has called setStartBlock: A is still
\* unmonitored.
C16_Witness ==
  /\ syncAddresses["A"] = Absent
  /\ nMapOps = 2
  /\ RowsByHash("n2") # {}
  /\ \E t \in Tasks :
       task[t].pc = "fetch" /\ task[t].addrs[task[t].ai] = "A"

\* The transaction of the chain with hash h.
TxOf(h) == CHOOSE x \in ChainTxs : x.hash = h

\* x is discovered before y by one cycle for their address: normal
\* sub-fetch before ERC20 sub-fetch, and page order (ascending blocks)
\* within a sub-fetch.
DiscoveredBefore(x, y) ==
  \/ x.typ = TxTypeNormal /\ y.typ = TxTypeERC20
  \/ x.typ = y.typ /\ x.block < y.block

\* C13: events are put on the channel in discovery order: an event enters
\* the channel at its tail, for the item the goroutine has just stored, and
\* the goroutine goes on with the next item of the page; a consumer takes
\* the head; and as long as a single cycle has run, the events of an address
\* waiting in the channel stand in page order, those of its normal sub-fetch
\* before those of its ERC20 sub-fetch.
C13_EventsInDiscoveryOrder ==
  /\ [](nCycles <= 1 =>
          \A i, j \in 1..Len(historyEventsChan) :
            (i < j /\ TxOf(historyEventsChan[i].hash).addr = TxOf(historyEventsChan[j].hash).addr)
              => DiscoveredBefore(TxOf(historyEventsChan[i].hash),
                                  TxOf(historyEventsChan[j].hash)))
  /\ [][\/ historyEventsChan' = historyEventsChan
        \/ HistoryEvents /\ historyEventsChan' = Tail(historyEventsChan)
        \/ \E t \in Tasks :
             /\ task[t].pc = "save"
             /\ historyEventsChan' =
                  Append(historyEventsChan,
                         [hash |-> task[t].page[task[t].ii].hash,
                          isNew |-> (task[t].existing = NoRow)])
             /\ FollowsItem(task[t], task'[t])]_vars

\* One cycle of one goroutine left the events of A's two normal
\* transactions, in page order, and then that of A's ERC20 transfer in the
\* channel (the address was unmonitored between the two sub-fetches, so the
\* ERC20 sub-fetch started from block 0).
C13_Witness ==
  /\ nStarts = 1 /\ nCycles = 1 /\ nRecv = 0
  /\ Len(historyEventsChan) = 3
  /\ historyEventsChan[1].hash = "n1"
  /\ historyEventsChan[2].hash = "n2"
  /\ historyEventsChan[3].hash = "e1"

(* -------------------------- keystore: actions ------------------------- *)
\* time.Now(): the keystore calls are numbered in the order of time.
Now == nKsOps + 1

\* The row an INSERT INTO keys writes.
Row(name, keyType, curveName, tagsJSON, createdAt, privateKey, publicKey) ==
  [name |-> name, key_type |-> keyType, curve |-> curveName, tags |-> tagsJSON,
   created_at |-> createdAt, private_key |-> privateKey, public_key |-> publicKey]

\* The *Key a call hands back.
Key(id, name, keyType, curve, tags, createdAt, privateKey, publicKey) ==
  [ID |-> id, Name |-> name, Type |-> keyType, Curve |-> curve, Tags |-> tags,
   CreatedAt |-> createdAt, PrivateKey |-> privateKey, PublicKey |-> publicKey]

\* return nil, err
Failed(op, id, err) == [NoRet EXCEPT !.op = op, !.id = id, !.err = err]

\* return key, nil
Returned(op, id, key) == [NoRet EXCEPT !.op = op, !.id = id, !.keys = << key >>]

\* Variant: Create writes the row before it encrypts, and leaves it behind
\* when ks.encryptor.Encrypt fails.
DBKeyStoreCreate_InsertsBeforeEncrypting(name, keyType, curveArg, tags) ==
  LET curve == IF keyType = KeyTypeECDSA /\ curveArg = NilCurve THEN P256 ELSE curveArg
      pair == GenerateKeyPair(keyType, curve)
      curveName == IF curve # NilCurve THEN ParamsName(curve) ELSE ""
      key == Key(nextID, name, keyType, curve, tags, Now, Encrypt(pair.privateKey), pair.publicKey)
      row == Row(key.Name, key.Type, curveName, Marshal(tags), key.CreatedAt,
                 key.PrivateKey, key.PublicKey)
  IN
  /\ nKsOps < MaxKsOps
  /\ nKsOps' = nKsOps + 1
  /\ \/ /\ ksRet' = Failed("Create", 0, ErrCodeDatabaseError)
        /\ UNCHANGED << keys, nextID >>
     \/ /\ nextID <= MaxKeys
        /\ nextID' = nextID + 1
        /\ IF pair.err # NoErr
             THEN /\ ksRet' = Failed("Create", nextID, pair.err)
                  /\ UNCHANGED keys
             ELSE \/ /\ ksRet' = Failed("Create", nextID, ErrCodeEncryptionError)
                     /\ keys' = [keys EXCEPT ![nextID] = [row EXCEPT !.private_key = NoMaterial]]
                  \/ /\ ksRet' = Failed("Create", nextID, ErrCodeDatabaseError)
                     /\ UNCHANGED keys
                  \/ /\ keys' = [keys EXCEPT ![nextID] = row]
                     /\ ksRet' = Returned("Create", nextID, key)
  /\ UNCHANGED << wallets, deleted, outsideKeystore >>

\* Create(ctx, name, keyType, curve, tags)
DBKeyStoreCreate(name, keyType, curveArg, tags) ==
  LET curve == IF keyType = KeyTypeECDSA /\ curveArg = NilCurve THEN P256 ELSE curveArg
      pair == GenerateKeyPair(keyType, curve)
      curveName == IF curve # NilCurve THEN ParamsName(curve) ELSE ""
      key == Key(nextID, name, keyType, curve, tags, Now, Encrypt(pair.privateKey), pair.publicKey)
  IN
  /\ nKsOps < MaxKsOps
  /\ nKsOps' = nKsOps + 1
  /\ \/ \* ks.db.GenerateID fails
        /\ ksRet' = Failed("Create", 0, ErrCodeDatabaseError)
        /\ UNCHANGED << keys, nextID >>
     \/ /\ nextID <= MaxKeys
        /\ nextID' = nextID + 1
        /\ IF pair.err # NoErr
             THEN /\ ksRet' = Failed("Create", nextID, pair.err)
                  /\ UNCHANGED keys
             ELSE \/ \* ks.encryptor.Encrypt fails
                     /\ ksRet' = Failed("Create", nextID, ErrCodeEncryptionError)
                     /\ UNCHANGED keys
                  \/ \* the INSERT fails
                     /\ ksRet' = Failed("Create", nextID, ErrCodeDatabaseError)
                     /\ UNCHANGED keys
                  \/ /\ keys' = [keys EXCEPT ![nextID] =
                                   Row(key.Name, key.Type, curveName, Marshal(tags), key.CreatedAt,
                                       key.PrivateKey, key.PublicKey)]
                     /\ ksRet' = Returned("Create", nextID, key)
  /\ UNCHANGED << wallets, deleted, outsideKeystore >>

\* Variant: Import writes the caller's private key bytes as they came.
Import_StoresPlaintext(name, keyType, curveArg, privateKey, publicKey, tags) ==
  LET curve == IF keyType = KeyTypeECDSA /\ curveArg = NilCurve THEN P256 ELSE curveArg
      curveName == IF curve # NilCurve THEN ParamsName(curve) ELSE ""
      key == Key(nextID, name, keyType, curve, tags, Now, privateKey, publicKey)
  IN
  /\ nKsOps < MaxKsOps
  /\ nKsOps' = nKsOps + 1
  /\ \/ /\ ksRet' = Failed("Import", 0, ErrCodeEncryptionError)
        /\ UNCHANGED << keys, nextID >>
     \/ /\ ksRet' = Failed("Import", 0, ErrCodeDatabaseError)
        /\ UNCHANGED << keys, nextID >>
     \/ /\ nextID <= MaxKeys
        /\ nextID' = nextID + 1
        /\ \/ /\ ksRet' = Failed("Import", nextID, ErrCodeDatabaseError)
              /\ UNCHANGED keys
           \/ /\ keys' = [keys EXCEPT ![nextID] =
                            Row(key.Name, key.Type, curveName, Marshal(tags), key.CreatedAt,
                                key.PrivateKey, key.PublicKey)]
              /\ ksRet' = Returned("Import", nextID, key)
  /\ UNCHANGED << wallets, deleted, outsideKeystore >>

\* Import(ctx, name, keyType, curve, privateKey, publicKey, tags)
Import(name, keyType, curveArg, privateKey, publicKey, tags) ==
  LET curve == IF keyType = KeyTypeECDSA /\ curveArg = NilCurve THEN P256 ELSE curveArg
      curveName == IF curve # NilCurve THEN ParamsName(curve) ELSE ""
      key == Key(nextID, name, keyType, curve, tags, Now, Encrypt(privateKey), publicKey)
  IN
  /\ nKsOps < MaxKsOps
  /\ nKsOps' = nKsOps + 1
  /\ \/ \* ks.encryptor.Encrypt fails
        /\ ksRet' = Failed("Import", 0, ErrCodeEncryptionError)
        /\ UNCHANGED << keys, nextID >>
     \/ \* ks.db.GenerateID fails
        /\ ksRet' = Failed("Import", 0, ErrCodeDatabaseError)
        /\ UNCHANGED << keys, nextID >>
     \/ /\ nextID <= MaxKeys
        /\ nextID' = nextID + 1
        /\ \/ \* the INSERT fails
              /\ ksRet' = Failed("Import", nextID, ErrCodeDatabaseError)
              /\ UNCHANGED keys
           \/ /\ keys' = [keys EXCEPT ![nextID] =
                            Row(key.Name, key.Type, curveName, Marshal(tags), key.CreatedAt,
                                key.PrivateKey, key.PublicKey)]
              /\ ksRet' = Returned("Import", nextID, key)
  /\ UNCHANGED << wallets, deleted, outsideKeystore >>

\* The body of GetPublicKey once its SELECT (which leaves out private_key)
\* has run on the table: rows.Next, Scan, curveByName, Unmarshal.
ScanPublicKey(op, table, id) ==
  IF table[id] = NoKey
    THEN Failed(op, id, ErrCodeResourceNotFound)
    ELSE LET row == table[id]
             res == curveByName(row.curve)
         IN  IF row.curve # "" /\ res.err # NoErr
               THEN Failed(op, id, res.err)
               ELSE Returned(op, id,
                      Key(id, row.name, row.key_type,
                          IF row.curve # "" THEN res.curve ELSE NilCurve,
                          Unmarshal(row.tags), row.created_at, NoMaterial, row.public_key))

\* GetPublicKey(ctx, id)
GetPublicKey(id) ==
  /\ nKsOps < MaxKsOps
  /\ nKsOps' = nKsOps + 1
  /\ \/ \* the SELECT fails
        ksRet' = Failed("GetPublicKey", id, ErrCodeDatabaseError)
     \/ ksRet' = ScanPublicKey("GetPublicKey", keys, id)
  /\ UNCHANGED << keys, wallets, nextID, deleted, outsideKeystore >>

\* The IDs of the rows `WHERE id > token ORDER BY id ASC LIMIT n` selects.
RECURSIVE SelectIDs(_, _)
SelectIDs(token, n) ==
  LET rest == {id \in KeyIDs : id > token /\ keys[id] # NoKey}
  IN  IF n = 0 \/ rest = {}
        THEN << >>
        ELSE LET first == CHOOSE id \in rest : \A other \in rest : id <= other
             IN  << first >> \o SelectIDs(first, n - 1)

\* types.NewPage(keys, limit, generateToken): the first `limit` items, and
\* the token of the last of them when one item more was fetched.
NewPage(op, items, limit) ==
  IF Len(items) > limit
    THEN [NoRet EXCEPT !.op = op, !.keys = SubSeq(items, 1, limit),
                       !.token = items[limit].ID]
    ELSE [NoRet EXCEPT !.op = op, !.keys = items]

\* The body of List once its SELECT has run: the default limit, the loop
\* over the rows (the first row whose curve does not resolve ends it with
\* that error), NewPage. Token 0 stands for the empty nextToken.
ListRows(limitArg, token) ==
  LET limit == IF limitArg <= 0 THEN DefaultLimit ELSE limitArg
      ids == SelectIDs(token, limit + 1)
      scans == [i \in 1..Len(ids) |-> ScanPublicKey("List", keys, ids[i])]
      bad == {i \in 1..Len(ids) : scans[i].err # NoErr}
  IN  IF bad # {}
        THEN Failed("List", 0, scans[CHOOSE i \in bad : \A j \in bad : i <= j].err)
        ELSE NewPage("List", [i \in 1..Len(ids) |-> scans[i].keys[1]], limit)

\* List(ctx, limit, nextToken)
List(limitArg, token) ==
  /\ nKsOps < MaxKsOps
  /\ nKsOps' = nKsOps + 1
  /\ \/ \* the SELECT fails
        ksRet' = Failed("List", 0, ErrCodeDatabaseError)
     \/ ksRet' = ListRows(limitArg, token)
  /\ UNCHANGED << keys, wallets, nextID, deleted, outsideKeystore >>

\* Variant: the UPDATE statement also sets created_at to the current time.
DBKeyStoreUpdate_TouchesCreatedAt(id, name, tags) ==
  /\ nKsOps < MaxKsOps
  /\ nKsOps' = nKsOps + 1
  /\ \/ /\ ksRet' = Failed("Update", id, ErrCodeDatabaseError)
        /\ UNCHANGED keys
     \/ /\ keys[id] = NoKey
        /\ ksRet' = Failed("Update", id, ErrCodeResourceNotFound)
        /\ UNCHANGED keys
     \/ /\ keys[id] # NoKey
        /\ keys' = [keys EXCEPT ![id].name = name, ![id].tags = Marshal(tags),
                                ![id].created_at = Now]
        /\ \/ ksRet' = Failed("Update", id, ErrCodeDatabaseError)
           \/ ksRet' = ScanPublicKey("Update", keys', id)
  /\ UNCHANGED << wallets, nextID, deleted, outsideKeystore >>

\* Update(ctx, id, name, tags): the UPDATE statement, the affected-row
\* count, then GetPublicKey(ctx, id).
DBKeyStoreUpdate(id, name, tags) ==
  /\ nKsOps < MaxKsOps
  /\ nKsOps' = nKsOps + 1
  /\ \/ \* the UPDATE fails
        /\ ksRet' = Failed("Update", id, ErrCodeDatabaseError)
        /\ UNCHANGED keys
     \/ \* rowsAffected == 0
        /\ keys[id] = NoKey
        /\ ksRet' = Failed("Update", id, ErrCodeResourceNotFound)
        /\ UNCHANGED keys
     \/ /\ keys[id] # NoKey
        /\ keys' = [keys EXCEPT ![id].name = name, ![id].tags = Marshal(tags)]
        /\ \/ \* the SELECT of GetPublicKey fails
              ksRet' = Failed("Update", id, ErrCodeDatabaseError)
           \/ ksRet' = ScanPublicKey("Update", keys', id)
  /\ UNCHANGED << wallets, nextID, deleted, outsideKeystore >>

\* Variant: Delete without the `if rowsAffected == 0` check.
Delete_NoRowsAffectedCheck(id) ==
  /\ nKsOps < MaxKsOps
  /\ nKsOps' = nKsOps + 1
  /\ \/ /\ ksRet' = Failed("Delete", id, ErrCodeDatabaseError)
        /\ UNCHANGED << keys, deleted >>
     \/ /\ keys' = [keys EXCEPT ![id] = NoKey]
        /\ deleted' = deleted \cup {id}
        /\ ksRet' = [NoRet EXCEPT !.op = "Delete", !.id = id]
  /\ UNCHANGED << wallets, nextID, outsideKeystore >>

\* Variant: Delete reports success and leaves the row where it is.
Delete_LeavesRow(id) ==
  /\ nKsOps < MaxKsOps
  /\ nKsOps' = nKsOps + 1
  /\ \/ /\ ksRet' = Failed("Delete", id, ErrCodeDatabaseError)
        /\ UNCHANGED deleted
     \/ /\ keys[id] = NoKey
        /\ ksRet' = Failed("Delete", id, ErrCodeResourceNotFound)
        /\ UNCHANGED deleted
     \/ /\ keys[id] # NoKey
        /\ deleted' = deleted \cup {id}
        /\ ksRet' = [NoRet EXCEPT !.op = "Delete", !.id = id]
  /\ UNCHANGED << keys, wallets, nextID, outsideKeystore >>

\* Delete(ctx, id)
Delete(id) ==
  /\ nKsOps < MaxKsOps
  /\ nKsOps' = nKsOps + 1
  /\ \/ \* the DELETE fails
        /\ ksRet' = Failed("Delete", id, ErrCodeDatabaseError)
        /\ UNCHANGED << keys, deleted >>
     \/ \* rowsAffected == 0
        /\ keys[id] = NoKey
        /\ ksRet' = Failed("Delete", id, ErrCodeResourceNotFound)
        /\ UNCHANGED << keys, deleted >>
     \/ /\ keys[id] # NoKey
        /\ keys' = [keys EXCEPT ![id] = NoKey]
        /\ deleted' = deleted \cup {id}
        /\ ksRet' = [NoRet EXCEPT !.op = "Delete", !.id = id]
  /\ UNCHANGED << wallets, nextID, outsideKeystore >>

\* Variant: signData whose default case signs with HMAC.
signData_DefaultHMAC(id, keyType, privateKeyBytes, parses) ==
  IF keyType \in {KeyTypeECDSA, KeyTypeRSA} /\ privateKeyBytes # "generated private key" /\ ~parses
    THEN Failed("Sign", id, ErrCodeInvalidKey)
    ELSE [NoRet EXCEPT !.op = "Sign", !.id = id, !.sig = << "signature", privateKeyBytes >>]

\* signData(keyType, privateKeyBytes, ...): whether the bytes parse is the
\* caller's business for an imported key; generated bytes parse.
signData(id, keyType, privateKeyBytes, parses) ==
  IF keyType \notin {KeyTypeECDSA, KeyTypeRSA}
    THEN Failed("Sign", id, ErrCodeInvalidKeyType)
    ELSE IF privateKeyBytes # "generated private key" /\ ~parses
      THEN Failed("Sign", id, ErrCodeInvalidKey)
      ELSE [NoRet EXCEPT !.op = "Sign", !.id = id, !.sig = << "signature", privateKeyBytes >>]

\* Sign(ctx, id, data, dataType)
Sign(id) ==
  /\ nKsOps < MaxKsOps
  /\ nKsOps' = nKsOps + 1
  /\ \/ \* the SELECT fails
        ksRet' = Failed("Sign", id, ErrCodeDatabaseError)
     \/ /\ keys[id] = NoKey
        /\ ksRet' = Failed("Sign", id, ErrCodeResourceNotFound)
     \/ /\ keys[id] # NoKey
        /\ \E parses \in BOOLEAN :
             ksRet' = signData(id, keys[id].key_type, Decrypt(keys[id].private_key), parses)
  /\ UNCHANGED << keys, wallets, nextID, deleted, outsideKeystore >>

\* A wallet is made for a stored key: a WalletInfo with this KeyID.
NewWallet(id) ==
  /\ keys[id] # NoKey
  /\ id \notin wallets
  /\ wallets' = wallets \cup {id}
  /\ UNCHANGED << keys, ksRet, nextID, deleted, nKsOps, outsideKeystore >>

NextKS ==
  \/ \E name \in NewNames, req \in KeyRequests, tags \in Tags :
       DBKeyStoreCreate(name, req[1], req[2], tags)
  \/ \E name \in NewNames, req \in KeyRequests, tags \in Tags :
       Import(name, req[1], req[2], "imported private key", "imported public key", tags)
  \/ \E id \in KeyIDs : GetPublicKey(id)
  \/ \E limit \in Limits, token \in {0} \cup KeyIDs : List(limit, token)
  \/ \E id \in KeyIDs, name \in Names, tags \in Tags : DBKeyStoreUpdate(id, name, tags)
  \/ \E id \in KeyIDs : Delete(id)
  \/ \E id \in KeyIDs : Sign(id)
  \/ \E id \in KeyIDs : NewWallet(id)

SpecKS == Init /\ [][NextKS]_vars


(* ------------------------- claims C17..C20 ---------------------------- *)
\* A keystore call has just returned.
Called == nKsOps' # nKsOps

\* C17: each key goes absent -> Create|Import -> active -> Update* ->
\* active -> Delete -> absent and makes no other transition: a row appears
\* only by a successful Create or Import returning that ID, changes only
\* by a successful Update of that ID, disappears only by a successful Delete
\* of that ID; Sign, GetPublicKey and List change no row; and a call that
\* returns an error leaves every row as it was.
C17_KeyStateMachine ==
  [][/\ \A id \in KeyIDs :
          /\ (keys[id] = NoKey /\ keys'[id] # NoKey)
               => ksRet'.op \in {"Create", "Import"} /\ ksRet'.id = id /\ ksRet'.err = NoErr
          /\ (keys[id] # NoKey /\ keys'[id] = NoKey)
               => ksRet'.op = "Delete" /\ ksRet'.id = id /\ ksRet'.err = NoErr
          /\ (keys[id] # NoKey /\ keys'[id] # NoKey /\ keys'[id] # keys[id])
               => ksRet'.op = "Update" /\ ksRet'.id = id /\ ksRet'.err = NoErr
     /\ (Called /\ ksRet'.op \in {"Sign", "GetPublicKey", "List"}) => keys' = keys
     /\ (Called /\ ksRet'.err # NoErr) => keys' = keys]_vars

\* C18: Delete(id) is rejected, and the key stays stored, whenever a wallet
\* still references the key: a key that a wallet references is never
\* removed, and a Delete of it returns an error.
C18_DeleteRejectedWhileReferenced ==
  [][\A id \in KeyIDs :
       (keys[id] # NoKey /\ id \in wallets)
         => /\ keys'[id] # NoKey
            /\ (Called /\ ksRet'.op = "Delete" /\ ksRet'.id = id) => ksRet'.err # NoErr]_vars

\* Private key bytes as the key generator or a caller of Import has them.
PrivateKeys == {"generated private key", "imported private key"}

\* The bytes are what the encryptor returned for some private key, and are
\* not themselves a private key.
IsCiphertext(bytes) ==
  /\ bytes \notin PrivateKeys
  /\ \E privateKey \in PrivateKeys : bytes = Encrypt(privateKey)

\* C19: private key material is never persisted or returned unencrypted:
\* the private_key column of every row holds the encryptor's ciphertext,
\* the Key returned by Create and Import carries that ciphertext, and the
\* Keys returned by GetPublicKey, List and Update carry no private key.
C19_PrivateKeyOnlyEncrypted ==
  /\ \A id \in KeyIDs : keys[id] # NoKey => IsCiphertext(keys[id].private_key)
  /\ \A i \in 1..Len(ksRet.keys) :
       IF ksRet.op \in {"Create", "Import"}
         THEN /\ IsCiphertext(ksRet.keys[i].PrivateKey)
              /\ ksRet.keys[i].PrivateKey = keys[ksRet.id].private_key
         ELSE ksRet.keys[i].PrivateKey = NoMaterial

\* An imported key has been updated: its row holds the ciphertext of the
\* imported bytes, and Update returned the key without private material.
C19_Witness ==
  /\ ksRet.op = "Update"
  /\ ksRet.err = NoErr
  /\ keys[ksRet.id].private_key = Encrypt("imported private key")
  /\ ksRet.keys[1].PrivateKey = NoMaterial
  /\ ksRet.keys[1].PublicKey = "imported public key"

\* C20: every stored ECDSA key carries a curve name that resolves to a
\* supported curve (P-256 or secp256k1), so that after a successful Create
\* or Import of an ECDSA key, with any curve argument, neither GetPublicKey
\* nor List fails to resolve a curve.
C20_StoredCurveResolves ==
  /\ \A id \in KeyIDs :
       (keys[id] # NoKey /\ keys[id].key_type = KeyTypeECDSA)
         => curveByName(keys[id].curve).err = NoErr
  /\ ksRet.op \in {"GetPublicKey", "List"} => ksRet.err # ErrCodeInvalidCurve


(* ------------------------- claims C21..C25 ---------------------------- *)
\* C21: Update of an ID that is not stored, and Delete of an ID that is not
\* stored, fail with ResourceNotFound and change no stored key. (When the
\* statement itself fails the error is the database error instead.)
C21_AbsentUpdateDeleteNotFound ==
  [][\A id \in KeyIDs :
       (Called /\ ksRet'.op \in {"Update", "Delete"} /\ ksRet'.id = id /\ keys[id] = NoKey)
         => /\ ksRet'.err \in {ErrCodeResourceNotFound, ErrCodeDatabaseError}
            /\ ksRet'.keys = << >>
            /\ keys' = keys]_vars

\* Update of an ID whose key was never stored has returned ResourceNotFound
\* while another key is stored.
C21_Witness ==
  /\ ksRet.op = "Update"
  /\ ksRet.err = ErrCodeResourceNotFound
  /\ keys[ksRet.id] = NoKey
  /\ \E other \in KeyIDs : keys[other] # NoKey

\* C22: after a successful Delete(id), every later GetPublicKey(id),
\* Sign(id), Update(id) and Delete(id) fails with ResourceNotFound (or with
\* the database error when its statement fails), and List never returns
\* that key again: the row of a deleted ID is gone and never comes back.
C22_DeletedStaysGone ==
  /\ [](\A id \in deleted : keys[id] = NoKey)
  /\ [][\A id \in deleted :
          /\ (Called /\ ksRet'.op \in {"GetPublicKey", "Sign", "Update", "Delete"} /\ ksRet'.id = id)
               => /\ ksRet'.err \in {ErrCodeResourceNotFound, ErrCodeDatabaseError}
                  /\ ksRet'.keys = << >>
                  /\ ksRet'.sig = NoMaterial
          /\ (Called /\ ksRet'.op = "List")
               => \A i \in 1..Len(ksRet'.keys) : ksRet'.keys[i].ID # id]_vars

\* Key 1 was deleted, key 2 is stored, and a List has returned key 2 only.
C22_Witness ==
  /\ deleted = {1}
  /\ keys[2] # NoKey
  /\ ksRet.op = "List"
  /\ ksRet.err = NoErr
  /\ Len(ksRet.keys) = 1
  /\ ksRet.keys[1].ID = 2

\* C23: a successful Update(id, name, tags) changes only the name and the
\* tags of key id: its ID, key type, curve, creation time, encrypted private
\* key and public key are as before (in the row and in the returned Key),
\* and every other key is unchanged.
C23_UpdateChangesOnlyNameAndTags ==
  [][\A id \in KeyIDs :
       (Called /\ ksRet'.op = "Update" /\ ksRet'.id = id /\ ksRet'.err = NoErr)
         => /\ keys[id] # NoKey
            /\ keys'[id] = [keys[id] EXCEPT !.name = keys'[id].name, !.tags = keys'[id].tags]
            /\ \A other \in KeyIDs \ {id} : keys'[other] = keys[other]
            /\ LET key == ksRet'.keys[1]
               IN  /\ key.ID = id
                   /\ key.Name = keys'[id].name
                   /\ Marshal(key.Tags) = keys'[id].tags
                   /\ key.Type = keys[id].key_type
                   /\ key.CreatedAt = keys[id].created_at
                   /\ key.PublicKey = keys[id].public_key
                   /\ (keys[id].curve # "" => ParamsName(key.Curve) = keys[id].curve)
                   /\ (keys[id].curve = "" => key.Curve = NilCurve)]_vars

\* The second of two stored keys, created before this call, has been
\* renamed and retagged by Update.
C23_Witness ==
  /\ ksRet.op = "Update"
  /\ ksRet.err = NoErr
  /\ ksRet.id = 2
  /\ keys[1] # NoKey
  /\ keys[2].name = "cold"
  /\ keys[2].tags = Marshal("env")
  /\ keys[2].created_at < nKsOps

\* The IDs on a page, in the order of the page.
PageIDs(page) == [i \in 1..Len(page.keys) |-> page.keys[i].ID]

\* All stored IDs, ascending.
StoredIDs == SelectIDs(0, MaxKeys)

\* List called with page size limit and the token `after`, then again with
\* each returned token until a page comes without one: the IDs visited, and
\* whether the walk ended that way (at most `calls` more calls are made).
RECURSIVE ListWalk(_, _, _)
ListWalk(limit, after, calls) ==
  LET page == ListRows(limit, after)
  IN  IF page.err # NoErr \/ calls = 0
        THEN [ended |-> FALSE, ids |-> << >>]
        ELSE IF page.token = 0
          THEN [ended |-> TRUE, ids |-> PageIDs(page)]
          ELSE LET rest == ListWalk(limit, page.token, calls - 1)
               IN  [ended |-> rest.ended, ids |-> PageIDs(page) \o rest.ids]

\* C24: List with page size N returns at most N keys and a next token if
\* and only if more keys remain, and feeding each returned token into the
\* next call visits every stored key exactly once in ascending ID order,
\* ending in a page with no token.
C24_ListVisitsEveryKeyOnce ==
  \A N \in 1..MaxKeys :
    /\ \A after \in {0} \cup KeyIDs :
         LET page == ListRows(N, after)
             seen == IF Len(page.keys) = 0 THEN after ELSE page.keys[Len(page.keys)].ID
         IN  /\ page.err = NoErr
             /\ Len(page.keys) <= N
             /\ page.token # 0 <=> \E id \in KeyIDs : id > seen /\ keys[id] # NoKey
    /\ LET walk == ListWalk(N, 0, MaxKeys + 1)
       IN  walk.ended /\ walk.ids = StoredIDs

\* The same, for a table in which the curve of every row resolves.
ListVisitsEveryResolvableKeyOnce ==
  (\A id \in KeyIDs : keys[id] # NoKey /\ keys[id].curve # ""
       => curveByName(keys[id].curve).err = NoErr)
    => C24_ListVisitsEveryKeyOnce

CanRLock == syncMutex.writer = Nobody
CanLock == syncMutex.writer = Nobody /\ \A g \in Goroutines : syncMutex.readers[g] = 0
RLock(g) == [syncMutex EXCEPT !.readers[g] = @ + 1]
RUnlock(g) == [syncMutex EXCEPT !.readers[g] = @ - 1]
Lock(g) == [syncMutex EXCEPT !.writer = g]
Unlock(g) == [syncMutex EXCEPT !.writer = Nobody]

\* Where the sync goroutine is inside a call of the explorer, the
\* transformer, the token store or the repository.
IOPcs == {"explorer", "transform", "token", "getByHash", "save"}

\* The sync goroutine moves to pc with loop variables v.
SyncGoes(pc, v) ==
  /\ lpc' = [lpc EXCEPT ![SyncTask] = pc]
  /\ lsync' = v

\* A sub-fetch has returned: the ERC20 sub-fetch follows the normal one,
\* the next address follows the ERC20 one, the cycle ends after the last.
SyncAfterType ==
  IF lsync.typ = TxTypeNormal
    THEN SyncGoes("byType", [lsync EXCEPT !.typ = TxTypeERC20, !.items = 0])
    ELSE IF lsync.ai < lsync.n
      THEN SyncGoes("address", [lsync EXCEPT !.ai = @ + 1, !.items = 0])
      ELSE SyncGoes("out", [lsync EXCEPT !.items = 0])

\* The item loop goes on: the next item, or past the last one.
SyncAfterItem ==
  IF lsync.items > 1
    THEN SyncGoes("transform", [lsync EXCEPT !.items = @ - 1])
    ELSE SyncGoes("setStartBlock", [lsync EXCEPT !.items = 0])

\* syncTransactions: s.syncMutex.RLock()
SyncRLock ==
  /\ lpc[SyncTask] = "out"
  /\ nLockCycles < MaxLockCycles
  /\ CanRLock
  /\ syncMutex' = RLock(SyncTask)
  /\ lpc' = [lpc EXCEPT ![SyncTask] = "snapshot"]
  /\ nLockCycles' = nLockCycles + 1
  /\ UNCHANGED << lsync, outsideLock >>

\* Variant: syncTransactions with `defer s.syncMutex.RUnlock()`: the read
\* lock stays held for the whole cycle.
SyncSnapshot_DeferredUnlock ==
  /\ lpc[SyncTask] = "snapshot"
  /\ \E n \in 0..MaxSnapshot :
       IF n = 0
         THEN /\ SyncGoes("out", [n |-> 0, ai |-> 0, typ |-> TxTypeNormal, items |-> 0])
              /\ syncMutex' = RUnlock(SyncTask)
         ELSE /\ SyncGoes("address", [n |-> n, ai |-> 1, typ |-> TxTypeNormal, items |-> 0])
              /\ UNCHANGED syncMutex
  /\ UNCHANGED << nLockCycles, outsideLock >>

\* syncTransactions: the addresses are copied out, s.syncMutex.RUnlock(),
\* and the function returns if there are none.
SyncSnapshot ==
  /\ lpc[SyncTask] = "snapshot"
  /\ syncMutex' = RUnlock(SyncTask)
  /\ \E n \in 0..MaxSnapshot :
       IF n = 0
         THEN SyncGoes("out", [n |-> 0, ai |-> 0, typ |-> TxTypeNormal, items |-> 0])
         ELSE SyncGoes("address", [n |-> n, ai |-> 1, typ |-> TxTypeNormal, items |-> 0])
  /\ UNCHANGED << nLockCycles, outsideLock >>

\* for _, address := range addresses: ctx.Err() != nil returns, otherwise
\* syncTransactionsForAddress starts with the normal sub-fetch.
SyncAddress ==
  /\ lpc[SyncTask] = "address"
  /\ \/ SyncGoes("out", lsync)
     \/ SyncGoes("byType", [lsync EXCEPT !.typ = TxTypeNormal])
  /\ UNCHANGED << syncMutex, nLockCycles, outsideLock >>

\* syncTransactionsForAddressByType: NewExplorer, which may fail.
SyncNewExplorer ==
  /\ lpc[SyncTask] = "byType"
  /\ \/ SyncAfterType
     \/ SyncGoes("getStartBlock", lsync)
  /\ UNCHANGED << syncMutex, nLockCycles, outsideLock >>

\* getStartBlock: s.syncMutex.RLock()
SyncGetStartBlockRLock ==
  /\ lpc[SyncTask] = "getStartBlock"
  /\ CanRLock
  /\ syncMutex' = RLock(SyncTask)
  /\ SyncGoes("startBlock", lsync)
  /\ UNCHANGED << nLockCycles, outsideLock >>

\* getStartBlock: the map is read; defer s.syncMutex.RUnlock()
SyncGetStartBlockRUnlock ==
  /\ lpc[SyncTask] = "startBlock"
  /\ syncMutex' = RUnlock(SyncTask)
  /\ SyncGoes("explorer", lsync)
  /\ UNCHANGED << nLockCycles, outsideLock >>

\* explorer.GetTransactionHistory returns: an error, no items, or items.
SyncGetTransactionHistory ==
  /\ lpc[SyncTask] = "explorer"
  /\ \/ SyncAfterType
     \/ \E k \in 1..MaxItems : SyncGoes("transform", [lsync EXCEPT !.items = k])
  /\ UNCHANGED << syncMutex, nLockCycles, outsideLock >>

\* s.transformerService.Apply returns: nil skips the item.
SyncTransform ==
  /\ lpc[SyncTask] = "transform"
  /\ \/ SyncAfterItem
     \/ SyncGoes(IF lsync.typ = TxTypeERC20 THEN "token" ELSE "getByHash", lsync)
  /\ UNCHANGED << syncMutex, nLockCycles, outsideLock >>

\* isValidERC20Token (s.tokenStore.GetToken) returns: false skips the item.
SyncIsValidERC20Token ==
  /\ lpc[SyncTask] = "token"
  /\ \/ SyncAfterItem
     \/ SyncGoes("getByHash", lsync)
  /\ UNCHANGED << syncMutex, nLockCycles, outsideLock >>

\* s.repository.GetByHash returns: an error skips the item.
SyncGetByHash ==
  /\ lpc[SyncTask] = "getByHash"
  /\ \/ SyncAfterItem
     \/ SyncGoes("save", lsync)
  /\ UNCHANGED << syncMutex, nLockCycles, outsideLock >>

\* s.repository.Update or Create returns, the event is offered.
SyncSave ==
  /\ lpc[SyncTask] = "save"
  /\ SyncAfterItem
  /\ UNCHANGED << syncMutex, nLockCycles, outsideLock >>

\* setStartBlock: s.syncMutex.Lock()
SyncSetStartBlockLock ==
  /\ lpc[SyncTask] = "setStartBlock"
  /\ CanLock
  /\ syncMutex' = Lock(SyncTask)
  /\ SyncGoes("startBlockSet", lsync)
  /\ UNCHANGED << nLockCycles, outsideLock >>

\* setStartBlock: the map is written; defer s.syncMutex.Unlock()
SyncSetStartBlockUnlock ==
  /\ lpc[SyncTask] = "startBlockSet"
  /\ syncMutex' = Unlock(SyncTask)
  /\ SyncAfterType
  /\ UNCHANGED << nLockCycles, outsideLock >>

\* The methods that begin with s.syncMutex.Lock().
LockingMethods ==
  {"MonitorAddress", "UnmonitorAddress", "StartTransactionSyncing", "StopTransactionSyncing"}

\* A caller enters one of them: s.syncMutex.Lock()
CallerLock(g, method) ==
  /\ lpc[g] = "out"
  /\ CanLock
  /\ syncMutex' = Lock(g)
  /\ lpc' = [lpc EXCEPT ![g] = method]
  /\ UNCHANGED << lsync, nLockCycles, outsideLock >>

\* The method is done with s.syncAddresses / s.syncCtx: Unlock()
CallerUnlock(g) ==
  /\ lpc[g] \in LockingMethods
  /\ syncMutex' = Unlock(g)
  /\ lpc' = [lpc EXCEPT ![g] = "out"]
  /\ UNCHANGED << lsync, nLockCycles, outsideLock >>

NextLock ==
  \/ SyncRLock
  \/ SyncSnapshot
  \/ SyncAddress
  \/ SyncNewExplorer
  \/ SyncGetStartBlockRLock
  \/ SyncGetStartBlockRUnlock
  \/ SyncGetTransactionHistory
  \/ SyncTransform
  \/ SyncIsValidERC20Token
  \/ SyncGetByHash
  \/ SyncSave
  \/ SyncSetStartBlockLock
  \/ SyncSetStartBlockUnlock
  \/ \E g \in Callers, method \in LockingMethods : CallerLock(g, method)
  \/ \E g \in Callers : CallerUnlock(g)

SpecLock == Init /\ [][NextLock]_vars

\* C12: the monitored-address lock is never held across I/O: whenever the
\* sync task is inside an explorer call, a transform, a token-store call or
\* a repository call it holds neither the read lock nor the write lock, so
\* a caller of MonitorAddress or UnmonitorAddress can take the lock then
\* unless another caller holds it.
C12_NoLockAcrossIO ==
  [](lpc[SyncTask] \in IOPcs
       => /\ syncMutex.readers[SyncTask] = 0
          /\ syncMutex.writer # SyncTask
          /\ \A g \in Callers :
               (lpc[g] = "out" /\ syncMutex.writer \notin Callers)
                 => /\ ENABLED CallerLock(g, "MonitorAddress")
                    /\ ENABLED CallerLock(g, "UnmonitorAddress"))

\* The sync task is inside a repository call of an ERC20 sub-fetch, after
\* the snapshot and getStartBlock, while a caller is inside MonitorAddress
\* holding the write lock.
C12_Witness ==
  /\ lpc[SyncTask] = "save"
  /\ lsync.typ = TxTypeERC20
  /\ \E g \in Callers : lpc[g] = "MonitorAddress" /\ syncMutex.writer = g


(* ====================================================================== *)
(* The block explorer factory (internal/core/blockexplorer/factory.go).   *)
(* NewExplorer reads f.explorers, and on a miss looks the chain up, makes *)
(* an explorer and stores it. The factory holds no lock, so the steps of  *)
(* two calls interleave, and two goroutines inside the map at once are a  *)
(* data race the Go runtime may answer with a fatal error.                *)
(* ====================================================================== *)

\* One NewExplorer call starts: the goroutine is about to read the map.
FactoryCall(g, chainType) ==
  /\ ~mapFault
  /\ nFactoryCalls < MaxFactoryCalls
  /\ fcall[g].pc = "idle"
  /\ fcall' = [fcall EXCEPT ![g] = [pc |-> "lookup", chainType |-> chainType,
                                    explorer |-> NoExplorer]]
  /\ nFactoryCalls' = nFactoryCalls + 1
  /\ UNCHANGED << explorers, made, handed, mapFault, outsideFactory >>

\* if explorer, ok := f.explorers[chainType]; ok { return explorer, nil }
FactoryLookup(g) ==
  /\ ~mapFault
  /\ fcall[g].pc = "lookup"
  /\ LET ct == fcall[g].chainType IN
       IF explorers[ct] # NoExplorer
         THEN /\ fcall' = [fcall EXCEPT ![g].pc = "idle",
                                        ![g].explorer = explorers[ct]]
              /\ handed' = [handed EXCEPT ![ct] = @ \cup {explorers[ct]}]
         ELSE /\ fcall' = [fcall EXCEPT ![g].pc = "get"]
              /\ UNCHANGED handed
  /\ UNCHANGED << explorers, made, mapFault, nFactoryCalls, outsideFactory >>

\* chain, err := f.chains.Get(chainType); if err != nil { return nil, err }
\* and the default branch of the switch: NewChainNotSupportedError.
FactoryGetChain(g) ==
  /\ ~mapFault
  /\ fcall[g].pc = "get"
  /\ LET ct == fcall[g].chainType IN
       fcall' = [fcall EXCEPT ![g].pc =
                   IF ct \in ConfiguredChains /\ ct \in EVMChains
                     THEN "create" ELSE "idle"]
  /\ UNCHANGED << explorers, made, handed, mapFault, nFactoryCalls,
                  outsideFactory >>

\* explorer = NewEtherscanExplorer(...): a fresh instance.
FactoryCreate(g) ==
  /\ ~mapFault
  /\ fcall[g].pc = "create"
  /\ LET ct == fcall[g].chainType
         fresh == NewEtherscanExplorer(made)
     IN /\ fcall' = [fcall EXCEPT ![g].pc = "store", ![g].explorer = fresh]
        /\ made' = [made EXCEPT ![ct] = @ \cup {fresh}]
  /\ UNCHANGED << explorers, handed, mapFault, nFactoryCalls, outsideFactory >>

\* f.explorers[chainType] = explorer; return explorer, nil. The write races
\* with every other goroutine about to read or write the map: the runtime
\* either lets the write through or stops the process ("concurrent map
\* writes", "concurrent map read and map write").
FactoryStore(g) ==
  /\ ~mapFault
  /\ fcall[g].pc = "store"
  /\ LET ct == fcall[g].chainType
         racing == \E h \in Callers \ {g} : fcall[h].pc \in {"lookup", "store"}
     IN \/ /\ explorers' = [explorers EXCEPT ![ct] = fcall[g].explorer]
           /\ handed' = [handed EXCEPT ![ct] = @ \cup {fcall[g].explorer}]
           /\ fcall' = [fcall EXCEPT ![g].pc = "idle"]
           /\ UNCHANGED mapFault
        \/ /\ racing
           /\ mapFault' = TRUE
           /\ UNCHANGED << explorers, handed, fcall >>
  /\ UNCHANGED << made, nFactoryCalls, outsideFactory >>

NextFactory ==
  \/ \E g \in Callers, chainType \in ChainTypes : FactoryCall(g, chainType)
  \/ \E g \in Callers : FactoryLookup(g)
  \/ \E g \in Callers : FactoryGetChain(g)
  \/ \E g \in Callers : FactoryCreate(g)
  \/ \E g \in Callers : FactoryStore(g)

SpecFactory == Init /\ [][NextFactory]_vars

(* ------------------------------ claim C26 ----------------------------- *)

\* C26: for any sequence and any interleaving of NewExplorer calls for the
\* same supported chain type, every call returns the same explorer instance:
\* at most one explorer is ever created per chain type.
C26_OneExplorerPerChain ==
  \A ct \in EVMChains :
    /\ Cardinality(made[ct]) <= 1
    /\ Cardinality(handed[ct]) <= 1


(* ====================================================================== *)
(* The signer service (internal/services/signer/service.go). Every        *)
(* operation validates its arguments, then calls s.repository. The        *)
(* repository is an interface here: a call answers from the rows, or      *)
(* fails with a database error and changes nothing. calls counts the      *)
(* repository calls one operation made.                                   *)
(* ====================================================================== *)

\* The operation returned: what it was given, its error, its repository calls.
SvcReturn(op, args, err, calls) ==
  /\ svcRet' = [op |-> op, args |-> args, err |-> err, calls |-> calls]
  /\ nSvcOps' = nSvcOps + 1

\* errors.NewInvalidInputError before any repository call: nothing stored moves.
SvcInvalid(op, args) ==
  /\ SvcReturn(op, args, ErrCodeInvalidInput, 0)
  /\ UNCHANGED << signers, addresses, nextSignerID, nextAddressID >>

\* The operation returned after calls repository calls, none of which wrote.
SvcUnchanged(op, args, err, calls) ==
  /\ SvcReturn(op, args, err, calls)
  /\ UNCHANGED << signers, addresses, nextSignerID, nextAddressID >>

\* signerType == Internal && (userID == nil || *userID == 0)
InternalWithoutUser(signerType, userID) ==
  signerType = Internal /\ (userID = NilUserID \/ userID = << 0 >>)

\* s.repository.GetByID finds the row.
SignerExists(id) == id \in SignerIDs /\ signers[id] # NoSigner

CreateSigner(name, signerType, userID, dbOK) ==
  /\ nSvcOps < MaxSvcOps
  /\ LET args == [NoArgs EXCEPT !.name = name, !.signerType = signerType,
                                !.userID = userID]
     IN IF name = "" THEN SvcInvalid("CreateSigner", args)
        ELSE IF InternalWithoutUser(signerType, userID)
          THEN SvcInvalid("CreateSigner", args)
        ELSE IF ~dbOK \/ nextSignerID > MaxSigners
          THEN SvcUnchanged("CreateSigner", args, ErrCodeDatabaseError, 1)
        ELSE /\ signers' = [signers EXCEPT ![nextSignerID] =
                              [name |-> name, type |-> signerType,
                               userID |-> userID]]
             /\ nextSignerID' = nextSignerID + 1
             /\ SvcReturn("CreateSigner", args, NoErr, 1)
             /\ UNCHANGED << addresses, nextAddressID >>
  /\ UNCHANGED outsideSigner

\* UpdateSigner with the existence check moved ahead of the validation.
UpdateSigner_GetsBeforeValidating(id, name, signerType, userID, dbOK) ==
  /\ nSvcOps < MaxSvcOps
  /\ LET args == [NoArgs EXCEPT !.id = id, !.name = name,
                                !.signerType = signerType, !.userID = userID]
     IN IF ~SignerExists(id)
          THEN SvcUnchanged("UpdateSigner", args, ErrCodeSignerNotFound, 1)
        ELSE IF name = "" \/ InternalWithoutUser(signerType, userID)
          THEN SvcUnchanged("UpdateSigner", args, ErrCodeInvalidInput, 1)
        ELSE IF ~dbOK
          THEN SvcUnchanged("UpdateSigner", args, ErrCodeDatabaseError, 2)
        ELSE /\ signers' = [signers EXCEPT ![id] =
                              [name |-> name, type |-> signerType,
                               userID |-> userID]]
             /\ SvcReturn("UpdateSigner", args, NoErr, 2)
             /\ UNCHANGED << addresses, nextSignerID, nextAddressID >>
  /\ UNCHANGED outsideSigner

UpdateSigner(id, name, signerType, userID, dbOK) ==
  /\ nSvcOps < MaxSvcOps
  /\ LET args == [NoArgs EXCEPT !.id = id, !.name = name,
                                !.signerType = signerType, !.userID = userID]
     IN IF id = 0 THEN SvcInvalid("UpdateSigner", args)
        ELSE IF name = "" THEN SvcInvalid("UpdateSigner", args)
        ELSE IF InternalWithoutUser(signerType, userID)
          THEN SvcInvalid("UpdateSigner", args)
        ELSE IF ~SignerExists(id)
          THEN SvcUnchanged("UpdateSigner", args, ErrCodeSignerNotFound, 1)
        ELSE IF ~dbOK
          THEN SvcUnchanged("UpdateSigner", args, ErrCodeDatabaseError, 2)
        ELSE /\ signers' = [signers EXCEPT ![id] =
                              [name |-> name, type |-> signerType,
                               userID |-> userID]]
             /\ SvcReturn("UpdateSigner", args, NoErr, 2)
             /\ UNCHANGED << addresses, nextSignerID, nextAddressID >>
  /\ UNCHANGED outsideSigner

DeleteSigner(id, dbOK) ==
  /\ nSvcOps < MaxSvcOps
  /\ LET args == [NoArgs EXCEPT !.id = id]
     IN IF id = 0 THEN SvcInvalid("DeleteSigner", args)
        ELSE IF ~dbOK
          THEN SvcUnchanged("DeleteSigner", args, ErrCodeDatabaseError, 1)
        ELSE IF ~SignerExists(id)
          THEN SvcUnchanged("DeleteSigner", args, ErrCodeSignerNotFound, 1)
        ELSE /\ signers' = [signers EXCEPT ![id] = NoSigner]
             /\ addresses' = [a \in AddressIDs |->
                                IF addresses[a].signerID = id
                                  THEN NoAddress ELSE addresses[a]]
             /\ SvcReturn("DeleteSigner", args, NoErr, 1)
             /\ UNCHANGED << nextSignerID, nextAddressID >>
  /\ UNCHANGED outsideSigner

GetSignerByID(id) ==
  /\ nSvcOps < MaxSvcOps
  /\ LET args == [NoArgs EXCEPT !.id = id]
     IN IF id = 0 THEN SvcInvalid("GetSignerByID", args)
        ELSE IF ~SignerExists(id)
          THEN SvcUnchanged("GetSignerByID", args, ErrCodeSignerNotFound, 1)
        ELSE SvcUnchanged("GetSignerByID", args, NoErr, 1)
  /\ UNCHANGED outsideSigner

FindSignersByUserID(userID) ==
  /\ nSvcOps < MaxSvcOps
  /\ LET args == [NoArgs EXCEPT !.id = userID]
     IN IF userID = 0 THEN SvcInvalid("FindSignersByUserID", args)
        ELSE SvcUnchanged("FindSignersByUserID", args, NoErr, 1)
  /\ UNCHANGED outsideSigner

\* limit <= 0 becomes 10; no argument is required, the repository is always
\* asked.
ListSigners ==
  /\ nSvcOps < MaxSvcOps
  /\ SvcUnchanged("ListSigners", NoArgs, NoErr, 1)
  /\ UNCHANGED outsideSigner

AddAddress(signerID, chainType, address, dbOK) ==
  /\ nSvcOps < MaxSvcOps
  /\ LET args == [NoArgs EXCEPT !.id = signerID, !.chainType = chainType,
                                !.address = address]
     IN IF signerID = 0 THEN SvcInvalid("AddAddress", args)
        ELSE IF chainType = "" THEN SvcInvalid("AddAddress", args)
        ELSE IF address = "" THEN SvcInvalid("AddAddress", args)
        ELSE IF ~SignerExists(signerID)
          THEN SvcUnchanged("AddAddress", args, ErrCodeSignerNotFound, 1)
        ELSE IF ~dbOK \/ nextAddressID > MaxAddresses
          THEN SvcUnchanged("AddAddress", args, ErrCodeDatabaseError, 2)
        ELSE /\ addresses' = [addresses EXCEPT ![nextAddressID] =
                                [signerID |-> signerID, chainType |-> chainType,
                                 address |-> address]]
             /\ nextAddressID' = nextAddressID + 1
             /\ SvcReturn("AddAddress", args, NoErr, 2)
             /\ UNCHANGED << signers, nextSignerID >>
  /\ UNCHANGED outsideSigner

DeleteAddress(id, dbOK) ==
  /\ nSvcOps < MaxSvcOps
  /\ LET args == [NoArgs EXCEPT !.id = id]
     IN IF id = 0 THEN SvcInvalid("DeleteAddress", args)
        ELSE IF ~dbOK
          THEN SvcUnchanged("DeleteAddress", args, ErrCodeDatabaseError, 1)
        ELSE IF id \notin AddressIDs \/ addresses[id] = NoAddress
          THEN SvcUnchanged("DeleteAddress", args, ErrCodeSignerAddressNotFound, 1)
        ELSE /\ addresses' = [addresses EXCEPT ![id] = NoAddress]
             /\ SvcReturn("DeleteAddress", args, NoErr, 1)
             /\ UNCHANGED << signers, nextSignerID, nextAddressID >>
  /\ UNCHANGED outsideSigner

GetAddresses(signerID) ==
  /\ nSvcOps < MaxSvcOps
  /\ LET args == [NoArgs EXCEPT !.id = signerID]
     IN IF signerID = 0 THEN SvcInvalid("GetAddresses", args)
        ELSE IF ~SignerExists(signerID)
          THEN SvcUnchanged("GetAddresses", args, ErrCodeSignerNotFound, 1)
        ELSE SvcUnchanged("GetAddresses", args, NoErr, 2)
  /\ UNCHANGED outsideSigner

NextSigner ==
  \/ \E name \in SignerNames, signerType \in SignerTypes,
        userID \in UserIDArgs, dbOK \in BOOLEAN :
       CreateSigner(name, signerType, userID, dbOK)
  \/ \E id \in IDArgs, name \in SignerNames, signerType \in SignerTypes,
        userID \in UserIDArgs, dbOK \in BOOLEAN :
       UpdateSigner(id, name, signerType, userID, dbOK)
  \/ \E id \in IDArgs, dbOK \in BOOLEAN : DeleteSigner(id, dbOK)
  \/ \E id \in IDArgs : GetSignerByID(id)
  \/ \E userID \in {0, 7} : FindSignersByUserID(userID)
  \/ ListSigners
  \/ \E signerID \in IDArgs, chainType \in ChainTypeArgs,
        address \in AddressArgs, dbOK \in BOOLEAN :
       AddAddress(signerID, chainType, address, dbOK)
  \/ \E id \in IDArgs, dbOK \in BOOLEAN : DeleteAddress(id, dbOK)
  \/ \E signerID \in IDArgs : GetAddresses(signerID)

SpecSigner == Init /\ [][NextSigner]_vars

(* ------------------------------ claim C27 ----------------------------- *)

SvcCalled == nSvcOps' # nSvcOps

\* What the claim calls bad input, read off the arguments of the call.
BadInput(op, args) ==
  \/ /\ op \in {"UpdateSigner", "DeleteSigner", "GetSignerByID",
                "FindSignersByUserID", "AddAddress", "DeleteAddress",
                "GetAddresses"}
     /\ args.id = 0
  \/ /\ op \in {"CreateSigner", "UpdateSigner"}
     /\ \/ args.name = ""
        \/ args.signerType = Internal /\ args.userID \in {NilUserID, << 0 >>}
  \/ /\ op = "AddAddress"
     /\ (args.chainType = "" \/ args.address = "")

\* C27: every signer service operation given a zero ID, an empty required
\* string (name, chain type, address) or an internal signer type without a
\* non-zero user ID returns an invalid-input error without making any
\* repository call, and the stored signers and addresses are unchanged.
C27_BadInputRejectedBeforeRepository ==
  [][(SvcCalled /\ BadInput(svcRet'.op, svcRet'.args))
       => /\ svcRet'.err = ErrCodeInvalidInput
          /\ svcRet'.calls = 0
          /\ signers' = signers
          /\ addresses' = addresses]_vars

\* UpdateSigner of a stored signer was given an empty name and rejected, the
\* row as it was.
C27_Witness ==
  /\ svcRet.op = "UpdateSigner"
  /\ svcRet.args.id \in SignerIDs
  /\ signers[svcRet.args.id] # NoSigner
  /\ signers[svcRet.args.id].name = "ops"
  /\ svcRet.args.name = ""
  /\ svcRet.err = ErrCodeInvalidInput
  /\ svcRet.calls = 0


(* ====================================================================== *)
(* The elliptic-curve engine (secp256k1 Add and Double). A point is a     *)
(* pair of coordinates in [0, p); (0,0) stands for the point at infinity. *)
(* Each result carries the case it was returned from and whether the      *)
(* slope's modular inverse was asked of zero.                             *)
(* ====================================================================== *)

IsInfinity(x, y) == x = 0 /\ y = 0

\* y^2 = x^3 + b (mod p), coordinates in [0, p), (0,0) excluded.
IsOnCurve(x, y) ==
  /\ x \in Coordinates /\ y \in Coordinates
  /\ ~IsInfinity(x, y)
  /\ (y * y) % CurveP = (x * x * x + CurveB) % CurveP

\* big.Int.ModInverse(a, p): the inverse, or nil (0 here) when a = 0 mod p.
ModInverse(a) ==
  IF a % CurveP = 0 THEN 0
  ELSE CHOOSE i \in 1..(CurveP - 1) : (a * i) % CurveP = 1

\* -P of P = (x, y): (x, p - y); the point at infinity is its own negation.
Negate(y) == (CurveP - y) % CurveP

PointAtInfinity(path) ==
  [x |-> 0, y |-> 0, path |-> path, invOfZero |-> FALSE]

\* The affine formulas from a slope: x3 = l^2 - xa - xb, y3 = l(xa - x3) - ya.
\* With invOfZero the inverse was nil and the call panics: x and y then
\* carry no meaning.
FromSlope(lambda, xa, ya, xb, path, invOfZero) ==
  LET x3 == (lambda * lambda + 2 * CurveP - xa - xb) % CurveP
      y3 == (lambda * (xa + CurveP - x3) + CurveP - ya) % CurveP
  IN [x |-> x3, y |-> y3, path |-> path, invOfZero |-> invOfZero]

\* Double(x, y): y = 0 returns the point at infinity; otherwise the slope is
\* 3x^2 / 2y.
Double(x, y) ==
  IF y = 0 THEN PointAtInfinity("y-zero")
  ELSE LET den == (2 * y) % CurveP
           lambda == (3 * x * x * ModInverse(den)) % CurveP
       IN FromSlope(lambda, x, y, x, "double", den = 0)

\* Add without the negation case: a point and its negation reach the slope.
Add_NoNegationCase(x1, y1, x2, y2) ==
  IF IsInfinity(x1, y1)
    THEN [x |-> x2, y |-> y2, path |-> "first-infinity", invOfZero |-> FALSE]
  ELSE IF IsInfinity(x2, y2)
    THEN [x |-> x1, y |-> y1, path |-> "second-infinity", invOfZero |-> FALSE]
  ELSE IF x1 = x2 /\ y1 = y2 THEN Double(x1, y1)
  ELSE LET den == (x2 + CurveP - x1) % CurveP
           lambda == ((y2 + CurveP - y1) * ModInverse(den)) % CurveP
       IN FromSlope(lambda, x1, y1, x2, "slope", den = 0)

\* Add(x1, y1, x2, y2): either input the point at infinity returns the other;
\* identical points go to Double; same x with y values summing to p returns
\* the point at infinity; the rest is the slope (y2 - y1) / (x2 - x1).
Add(x1, y1, x2, y2) ==
  IF IsInfinity(x1, y1)
    THEN [x |-> x2, y |-> y2, path |-> "first-infinity", invOfZero |-> FALSE]
  ELSE IF IsInfinity(x2, y2)
    THEN [x |-> x1, y |-> y1, path |-> "second-infinity", invOfZero |-> FALSE]
  ELSE IF x1 = x2 /\ y1 = y2 THEN Double(x1, y1)
  ELSE IF x1 = x2 /\ y1 + y2 = CurveP THEN PointAtInfinity("negation")
  ELSE LET den == (x2 + CurveP - x1) % CurveP
           lambda == ((y2 + CurveP - y1) * ModInverse(den)) % CurveP
       IN FromSlope(lambda, x1, y1, x2, "slope", den = 0)

\* A caller's four coordinates: any values in [0, p).
InitCurve ==
  /\ Serves(MainChain)
  /\ NewHistoryService
  /\ NewDBKeyStore
  /\ NewSyncMutex
  /\ NewFactory
  /\ NewService
  /\ cin \in [x1 : Coordinates, y1 : Coordinates,
              x2 : Coordinates, y2 : Coordinates]
  /\ cout = NoResult

CurveReturned(op, r) ==
  [op |-> op, x |-> r.x, y |-> r.y, path |-> r.path, invOfZero |-> r.invOfZero]

\* Secp256k1Curve.Add(x1, y1, x2, y2)
CurveAdd ==
  /\ cout.op = ""
  /\ cout' = CurveReturned("Add", Add(cin.x1, cin.y1, cin.x2, cin.y2))
  /\ UNCHANGED << cin, outsideCurve >>

\* Secp256k1Curve.Double(x1, y1)
CurveDouble ==
  /\ cout.op = ""
  /\ cout' = CurveReturned("Double", Double(cin.x1, cin.y1))
  /\ UNCHANGED << cin, outsideCurve >>

NextCurve == CurveAdd \/ CurveDouble

SpecCurve == InitCurve /\ [][NextCurve]_vars


(* --------------------------- claims C28, C29 -------------------------- *)

\* A point of the group: on the curve, or the point at infinity.
IsPoint(x, y) == IsInfinity(x, y) \/ IsOnCurve(x, y)

SamePoint(r, q) == r.x = q.x /\ r.y = q.y

\* C28: for all points P, A, B on the curve, with (0,0) as the point at
\* infinity: Add(P, infinity) = Add(infinity, P) = P, Add(P, P) = Double(P),
\* Add(P, -P) = infinity, and Add(A, B) = Add(B, A).
C28_AddLaws ==
  (cout.op = "Add" /\ IsPoint(cin.x1, cin.y1) /\ IsPoint(cin.x2, cin.y2))
    => /\ IsInfinity(cin.x2, cin.y2) => (cout.x = cin.x1 /\ cout.y = cin.y1)
       /\ IsInfinity(cin.x1, cin.y1) => (cout.x = cin.x2 /\ cout.y = cin.y2)
       /\ (cin.x1 = cin.x2 /\ cin.y1 = cin.y2)
            => SamePoint(cout, Double(cin.x1, cin.y1))
       /\ (cin.x1 = cin.x2 /\ cin.y2 = Negate(cin.y1))
            => IsInfinity(cout.x, cout.y)
       /\ SamePoint(cout, Add(cin.x2, cin.y2, cin.x1, cin.y1))
       /\ IsPoint(cout.x, cout.y)

\* Two different points of the curve, not each other's negation, were added
\* through the slope, and the sum is a third point of the curve.
C28_Witness ==
  /\ cout.op = "Add"
  /\ IsOnCurve(cin.x1, cin.y1) /\ IsOnCurve(cin.x2, cin.y2)
  /\ cin.x1 # cin.x2
  /\ cout.path = "slope"
  /\ IsOnCurve(cout.x, cout.y)
  /\ cout.x \notin {cin.x1, cin.x2}

\* A point of the curve was added to its negation.
C28_WitnessNegation ==
  /\ cout.op = "Add"
  /\ IsOnCurve(cin.x1, cin.y1)
  /\ cin.x2 = cin.x1 /\ cin.y2 = Negate(cin.y1)
  /\ cout.path = "negation"

\* C29: Add and Double never attempt a modular inverse of zero: for every
\* pair of inputs with equal x-coordinates Add returns through the
\* identical-point or negation case (or, for (0,0), the infinity case) before
\* computing a slope, and Double of a point with y = 0 returns the point at
\* infinity before computing a slope.
C29_NoInverseOfZero ==
  /\ cout.op # "" => ~cout.invOfZero
  /\ (cout.op = "Add" /\ cin.x1 = cin.x2) => cout.path # "slope"
  /\ (cout.op = "Double" /\ cin.y1 = 0)
       => (cout.path = "y-zero" /\ IsInfinity(cout.x, cout.y))

\* What does hold: for points of the group, and for Double of any
\* coordinates, no inverse of zero is asked for.
C29_PointsNoInverseOfZero ==
  /\ (cout.op = "Add" /\ IsPoint(cin.x1, cin.y1) /\ IsPoint(cin.x2, cin.y2))
       => /\ ~cout.invOfZero
          /\ cin.x1 = cin.x2 => cout.path # "slope"
  /\ cout.op = "Double"
       => /\ ~cout.invOfZero
          /\ cin.y1 = 0 => (cout.path = "y-zero" /\ IsInfinity(cout.x, cout.y))


(* ------------------------------ claim C30 ----------------------------- *)

\* The goroutine is inside the normal sub-fetch of its current address, its
\* explorer call made; inside the ERC20 sub-fetch, from before its explorer
\* call on.
InNormal(r) == r.typ = TxTypeNormal /\ r.pc \in {"item", "save", "advance"}
InERC20(r) == r.typ = TxTypeERC20 /\ r.pc \in {"fetch", "item", "save", "advance"}

\* The ERC20 sub-fetch of the address r was on, about to call the explorer.
AtERC20Of(r, q) ==
  /\ q.pc = "fetch" /\ q.typ = TxTypeERC20
  /\ q.addrs = r.addrs /\ q.ai = r.ai
  /\ q.page = << >> /\ q.ii = 0

\* C30: within one address's sync the normal-transaction sub-fetch has
\* finished before the ERC20 sub-fetch begins, and the ERC20 sub-fetch is
\* attempted whether the normal sub-fetch succeeded or failed.
C30_NormalThenERC20 ==
  /\ [](\A t \in Tasks :
          (task[t].pc = "fetch" /\ ~crashed)
            => /\ task[t].typ = TxTypeERC20
               /\ task[t].page = << >> /\ task[t].ii = 0
               /\ ENABLED TaskSyncERC20(t))
  /\ [][\A t \in Tasks :
          LET r == task[t]
              q == task'[t]
          IN  q # r =>
                \* the ERC20 sub-fetch begins only where the normal one ends
                /\ (InERC20(q) /\ ~InERC20(r))
                     => /\ r.pc = "addr" \/ InNormal(r)
                        /\ AtERC20Of(r, q)
                \* the normal sub-fetch, once its explorer call is made, ends
                \* in the ERC20 sub-fetch of the same address
                /\ (InNormal(r) /\ ~InNormal(q)) => AtERC20Of(r, q)
                \* the explorer call of the normal sub-fetch, failed or not,
                \* is followed by the items of its page or by the ERC20
                \* sub-fetch
                /\ (r.pc = "addr" /\ r.ctx # NoCtx /\ r.ctx \notin cancelled)
                     => InNormal(q) \/ AtERC20Of(r, q)]_vars

\* The explorer call of the normal sub-fetch of an address failed, and the
\* goroutine is about to make the ERC20 call for that address.
C30_Witness ==
  \E t \in Tasks :
    /\ task[t].pc = "fetch" /\ task[t].typ = TxTypeERC20
    /\ cyc[t] # Void
    /\ task[t].addrs[task[t].ai] \in cyc[t].errAddrs
    /\ task[t].addrs[task[t].ai] \notin cyc[t].okAddrs

(* ------------------------------ claim C32 ----------------------------- *)

\* The repository call of goroutine t's save step succeeded: Create added a
\* row, or Update left the item's block out of the failed ones.
SaveSucceeded(t) ==
  LET r == task[t]
      item == r.page[r.ii]
  IN  IF r.existing = NoRow
        THEN repository' # repository
        ELSE item.block \notin task'[t].failed

\* C32: an event is offered to the history channel for a transaction if and
\* only if its repository Create or Update succeeded in that sub-fetch, and
\* its IsNew flag is true exactly when the transaction was created (no row
\* with that hash existed) and false when an existing row was updated.
C32_EventIffSaved ==
  [][/\ \A t \in Tasks :
          LET r == task[t]
              item == r.page[r.ii]
              offered == Len(historyEventsChan') = Len(historyEventsChan) + 1
          IN  (r.pc = "save" /\ task'[t] # r)
                => /\ offered <=> SaveSucceeded(t)
                   /\ offered =>
                        /\ Last(historyEventsChan').hash = item.hash
                        /\ Last(historyEventsChan').isNew
                             <=> /\ RowsByHash(item.hash) = {}
                                 /\ Cardinality(repository') = Cardinality(repository) + 1
                        /\ ~Last(historyEventsChan').isNew
                             <=> /\ r.existing \in RowsByHash(item.hash)
                                 /\ repository' = repository
     /\ Len(historyEventsChan') > Len(historyEventsChan)
          => \E t \in Tasks : task[t].pc = "save" /\ task'[t] # task[t]]_vars

(* ------------------------------ claim C33 ----------------------------- *)

\* C33: whenever a sync sub-fetch reads an address's watermark the address
\* is present in the monitored map, so the default of block 0 is never used,
\* also when UnmonitorAddress runs between the cycle's snapshot and that
\* sub-fetch; consequently no sub-fetch ever queries the explorer from block
\* 0 for an address that was monitored from a higher block.
C33_WatermarkReadFindsAddress ==
  /\ [](\A t \in Tasks :
          task[t].pc \in {"item", "save", "advance"}
            => \E b \in StartBlocks : task[t].start >= b)
  /\ [][\A t \in Tasks :
          LET r == task[t] IN
          (/\ task'[t] # r
           /\ \/ r.pc = "fetch"
              \/ r.pc = "addr" /\ r.ctx # NoCtx /\ r.ctx \notin cancelled)
            => syncAddresses[r.addrs[r.ai]] # Absent]_vars

(* ------------------------------ claim C35 ----------------------------- *)

\* C35: a background task only ever uses the cancellation context created
\* by the Start that spawned it: at every point where it reads the engine's
\* context (initial cycle, wait for tick or cancellation, tick cycle) the
\* value is neither the nil left by a StopTransactionSyncing nor the context
\* of a later Start. (Goroutine t is spawned by the Start that made
\* context t; a nil read at the select ends in the crash.)
C35_TaskUsesOwnContext ==
  /\ ~crashed
  /\ \A t \in Tasks :
       /\ InCycle(t) => task[t].ctx = t
       /\ task[t].pc = "select" => task[t].waitCtx = t

(* ------------------------------ claim C39 ----------------------------- *)

\* C39: a sync sub-fetch that finishes after UnmonitorAddress removed its
\* address does not put the address back into the monitored map: the set of
\* monitored addresses changes only through MonitorAddress and
\* UnmonitorAddress.
C39_OnlyMonitorCallsChangeTheSet ==
  [][/\ Monitored' # Monitored
          => /\ task' = task
             /\ \E a \in Addrs :
                  \/ UnmonitorAddress(a)
                  \/ \E b \in StartBlocks : MonitorAddress(a, b)
     /\ \A t \in Tasks :
          (/\ task[t].pc = "advance" /\ task'[t].pc # "advance"
           /\ syncAddresses[task[t].addrs[task[t].ai]] = Absent)
            => syncAddresses' = syncAddresses]_vars

\* A was monitored and unmonitored, nothing else; the ERC20 sub-fetch for A
\* has stored its transfer and called setStartBlock, the cycle is over, and
\* nothing is monitored.
C39_Witness ==
  /\ Monitored = {}
  /\ nMapOps = 2
  /\ RowsByHash("e1") # {}
  /\ \E t \in Tasks : task[t].pc = "wait" /\ cyc[t] = Void

(* ------------------------------ claim C34 ------------------------------ *)

\* The key IDs that have a row in the keys table.
Stored == {id \in KeyIDs : keys[id] # NoKey}

\* C34: a Create or Import that returns a key has persisted exactly one new
\* row, under the ID it generated, which no stored key had and which the
\* returned key carries; every other row is as it was.  A Create or Import
\* that returns an error (ID generation, key generation, encryption or the
\* INSERT failed) has persisted no row: the table is as it was.
C34_OneRowOnSuccessNoneOnFailure ==
  [][(Called /\ ksRet'.op \in {"Create", "Import"}) =>
       IF ksRet'.err = NoErr
         THEN \E id \in KeyIDs \ Stored :
                /\ Stored' = Stored \cup {id}
                /\ Len(ksRet'.keys) = 1
                /\ ksRet'.keys[1].ID = id
                /\ ksRet'.id = id
                /\ \A other \in KeyIDs \ {id} : keys'[other] = keys[other]
         ELSE keys' = keys]_vars

\* A call failed after it had generated the first ID and stored nothing; a
\* later call has succeeded and its row, under the second ID, is the only one.
C34_Witness ==
  /\ ksRet.op \in {"Create", "Import"}
  /\ ksRet.err = NoErr
  /\ ksRet.id = MaxKeys
  /\ Stored = {MaxKeys}
  /\ deleted = {}

(* ------------------------------ claim C31 ------------------------------ *)
\* The server after construction, with an explorer that serves DustChain.
InitDust ==
  /\ Serves(DustChain)
  /\ NewHistoryService
  /\ NewDBKeyStore
  /\ NewSyncMutex
  /\ NewFactory
  /\ NewService
  /\ NoCurveCall

SpecDust == InitDust /\ [][Next]_vars

\* The item a sub-fetch of type typ skips: the transform returns nil for it
\* or, in the ERC20 sub-fetch, isValidERC20Token finds no token address in
\* its metadata or no such token in the token store.
Filtered(item, typ) == item.veto \/ (typ = TxTypeERC20 /\ ~item.tracked)

\* C31: a transaction whose transform result is nil, or an ERC20 transfer
\* whose token address is missing from its metadata or from the token store,
\* never has a repository row and never has an event in the channel; the
\* step that handles it creates no row, updates no row and emits no event,
\* and goes on with the next item of the same page (or, after the last
\* one, with the code behind the loop), so the rest of the batch is
\* processed.
C31_FilteredItemsLeaveNoTrace ==
  /\ [](\A x \in ChainTxs :
          Filtered(x, x.typ) =>
            /\ RowsByHash(x.hash) = {}
            /\ \A i \in 1..Len(historyEventsChan) : historyEventsChan[i].hash # x.hash)
  /\ [][\A t \in Tasks :
          LET r == task[t]
              item == r.page[r.ii]
          IN  (r.pc = "item" /\ task'[t] # r /\ Filtered(item, r.typ)) =>
                /\ repository' = repository
                /\ historyEventsChan' = historyEventsChan
                /\ task'[t].page = r.page
                /\ task'[t].failed = r.failed
                /\ IF r.ii < Len(r.page)
                     THEN task'[t].pc = "item" /\ task'[t].ii = r.ii + 1
                     ELSE task'[t].pc = "advance"]_vars

\* Both sub-fetches of A have met their filtered item first and then stored
\* the transaction behind it: the rows of n2 and e1 exist, those of d1 and
\* d2 do not, and the cycle has ended.
C31_Witness ==
  /\ Serves(DustChain)
  /\ RowsByHash("n2") # {}
  /\ RowsByHash("e1") # {}
  /\ RowsByHash("d1") = {}
  /\ RowsByHash("d2") = {}
  /\ \E t \in Tasks : task[t].pc = "wait"

(* ------------------------------ claim C37 ------------------------------ *)
\* The server after construction, with an explorer that serves BusyChain.
InitBusy ==
  /\ Serves(BusyChain)
  /\ NewHistoryService
  /\ NewDBKeyStore
  /\ NewSyncMutex
  /\ NewFactory
  /\ NewService
  /\ NoCurveCall

SpecBusy == InitBusy /\ [][Next]_vars

\* The entries of a page.
PageTxs(page) == {page[i] : i \in 1..Len(page)}

\* C37: when a sub-fetch is about to move the watermark of its address to
\* the block of the last item of its page plus one, the page holds every
\* transaction of that address and type the explorer has from the
\* watermark it asked for up to that block, so that each has been returned
\* and processed and none is skipped; this also when the explorer has more
\* such transactions than the 9000 of one page.
C37_WatermarkPassesOnlyReturnedTransactions ==
  \A t \in Tasks :
    LET r == task[t]
    IN  r.pc = "advance" =>
          \A x \in ChainTxs :
            (/\ x.addr = r.addrs[r.ai]
             /\ x.typ = r.typ
             /\ x.block >= r.start
             /\ x.block <= Last(r.page).block) => x \in PageTxs(r.page)

(* ------------------------------ claim C36 ------------------------------ *)
\* The caller cancels the context it handed to the Start that made context
\* c: context.WithCancel(ctx) made c a child of it, so c is done as well.
\* Nothing of the historyService runs, and s.syncCtx stays as it is.
CallerCancels(c) ==
  /\ ~crashed
  /\ c <= nStarts
  /\ c \notin cancelled
  /\ cancelled' = cancelled \cup {c}
  /\ UNCHANGED << syncCtx, syncAddresses, historyEventsChan, repository, task,
                  ctxView, crashed, lastLog, cyc, nStarts, nCycles, nMapOps, nRecv >>
  /\ UNCHANGED outsideEngine

\* The historyService with callers that may cancel their contexts.
NextCaller ==
  \/ Next
  \/ \E c \in Ctxs : CallerCancels(c)

SpecCaller == Init /\ [][NextCaller]_vars

\* C36: whenever s.syncCtx is non-nil, so that StartTransactionSyncing
\* returns without starting anything, a goroutine started by
\* StartTransactionSyncing is alive whose context is not done, so that it
\* will run further cycles; this also after the caller has cancelled the
\* context it passed to StartTransactionSyncing without calling
\* StopTransactionSyncing.
C36_RunningMeansLiveTask ==
  (~crashed /\ syncCtx # NoCtx) =>
     \E t \in Tasks :
       /\ Alive(t)
       /\ \E c \in ctxView[t] : c # NoCtx /\ c \notin cancelled

(* ------------------------------ claim C38 ------------------------------ *)
\* Start blocks a caller may pass for an address it has monitored before.
LaterStartBlocks == {100, 200}

\* The hex text of an address, one letter per position, in any letter case.
ToLowerLetter(ch) == CASE ch = "A" -> "a" [] ch = "B" -> "b" [] OTHER -> ch
ToUpperLetter(ch) == CASE ch = "a" -> "A" [] ch = "b" -> "B" [] OTHER -> ch

\* strings.ToLower
ToLower(text) == [i \in 1..Len(text) |-> ToLowerLetter(text[i])]

\* address.ToChecksum(): the text in its canonical mixed case, in which the
\* case of each letter is a function of the lower-case text alone (here:
\* the letters at odd positions are upper case).
ToChecksum(address) ==
  LET low == ToLower(address.Address)
  IN  [i \in 1..Len(low) |-> IF i % 2 = 1 THEN ToUpperLetter(low[i]) ELSE low[i]]

\* The addresses callers hand to MonitorAddress: one account on two chains,
\* written in every letter case.
Addresses ==
  [ChainType : {ChainTypeEthereum, ChainTypeBase},
   Address : [1..2 -> {"a", "A"}] \cup [1..2 -> {"b", "B"}]]

\* The keys of s.syncAddresses in use ("chainType:lower-case address") and
\* the names the entries under them go by.
KeyNames ==
  << ChainTypeEthereum, << "a", "a" >> >> :> "A" @@
  << ChainTypeBase, << "a", "a" >> >> :> "B"

\* deriveAddressKey: fmt.Sprintf("%s:%s", ChainType, ToLower(ToChecksum())).
deriveAddressKey(address) == << address.ChainType, ToLower(ToChecksum(address)) >>

\* The addresses whose key is in use.
KnownAddresses == {address \in Addresses : deriveAddressKey(address) \in DOMAIN KeyNames}

\* MonitorAddress(address, startBlockNumber), from the address as the
\* caller wrote it.
MonitorAddressAs(address, startBlockNumber) ==
  MonitorAddress(KeyNames[deriveAddressKey(address)], startBlockNumber)

\* UnmonitorAddress(address), likewise.
UnmonitorAddressAs(address) ==
  UnmonitorAddress(KeyNames[deriveAddressKey(address)])

\* The historyService with callers that write addresses in any letter case
\* and monitor them again from other start blocks.
NextAs ==
  \/ \E address \in KnownAddresses, b \in LaterStartBlocks : MonitorAddressAs(address, b)
  \/ \E address \in KnownAddresses : UnmonitorAddressAs(address)
  \/ StartTransactionSyncing
  \/ StopTransactionSyncing
  \/ HistoryEvents
  \/ \E t \in Tasks :
       \/ TaskInitialSync(t)
       \/ TaskSyncAddress(t)
       \/ TaskSyncERC20(t)
       \/ TaskGetByHash(t)
       \/ TaskSave(t)
       \/ TaskSetStartBlock(t)
       \/ TaskSelect(t)
       \/ TaskDone(t)
       \/ TaskTick(t)

SpecAs == InitDust /\ [][NextAs]_vars

\* Two addresses have one key exactly when their chain types are equal and
\* their texts differ in letter case only.
OneKeyPerAccount ==
  \A a1 \in Addresses, a2 \in Addresses :
    deriveAddressKey(a1) = deriveAddressKey(a2)
      <=> (a1.ChainType = a2.ChainType /\ ToLower(a1.Address) = ToLower(a2.Address))

\* C38: a MonitorAddress call for an address whose key (chain type and
\* address, whatever the letter case it is written in) is already in
\* s.syncAddresses leaves s.syncAddresses as it is, whatever start block it
\* passes: the entry keeps the start block it had, with the progress the
\* sync cycles made.  Stated the other way round: no step that changes
\* s.syncAddresses is such a call.
C38_MonitorAgainKeepsTheCursor ==
  /\ []OneKeyPerAccount
  /\ [][syncAddresses' # syncAddresses =>
          \A address \in KnownAddresses, b \in LaterStartBlocks :
            ~(/\ syncAddresses[KeyNames[deriveAddressKey(address)]] # Absent
              /\ MonitorAddressAs(address, b))]_vars

\* The sync cycles have moved the cursor of the address monitored as
\* ethereum "aa" from block 100 onwards, and a call of MonitorAddress for
\* ethereum "AA" from block 200 can be made that leaves it where it is.
C38_Witness ==
  /\ syncAddresses["A"] \notin {Absent, 100, 200}
  /\ ENABLED (/\ MonitorAddressAs([ChainType |-> ChainTypeEthereum, Address |-> << "A", "A" >>], 200)
              /\ syncAddresses'["A"] = syncAddresses["A"])

====
